---- MODULE Spec2Model ----
(***************************************************************************)
(* Blind Vision: the audio arbitration of the main interface (speakText,   *)
(* stopAllAudio, the remote TTS request and the speech-synthesis          *)
(* fallback), the capture / analysis / context flow, the voice assistant,  *)
(* the analysis history and the offline cache, and the floating overlay   *)
(* persistence service.                                                    *)
(***************************************************************************)
EXTENDS Naturals, Integers, Sequences, FiniteSets, TLC

(* ------------------------------------------------------------------ *)
(* Bounds of the model                                                 *)
(* ------------------------------------------------------------------ *)
\* speakText invocations that may be alive at the same time
MaxCalls == 2

\* captureImage invocations that may be alive at the same time
MaxCaptures == 2
\* getContextualInfo invocations that may be alive at the same time
MaxContext == 2
\* successful analyses in a run of the audio specification
MaxAudioRuns == 1
\* successful analyses in a run of the capture specification
MaxCaptureRuns == 2
\* answered questions in a run of the voice-assistant specification
MaxVoiceRuns == 1
\* restoration timers (the 500 ms timeouts) that may be pending at the same time
MaxTimers == 2
\* successful analyses in a run of the history specification
MaxHistoryRuns == 11
\* addToCache calls in a run of the cache specification
MaxCacheAdds == 21
\* pointer positions of a drag of the floating button: 0..MaxPointer
MaxPointer == 2
\* voices the speech engine offers
MaxVoices == 2
\* recognition objects that may be alive at the same time
MaxRecognitions == 2
\* touches in a run of the gesture specification
MaxTouches == 3
\* clock steps of 100 ms in a run of the gesture specification
MaxTicks == 7
\* handleFindNearbyHelp calls in a run of the emergency specification
MaxHelpRuns == 3
\* coordinates the device may report: 1..MaxCoords
MaxCoords == 2

\* analysisHistory keeps the new entry and the first HistoryKeep earlier ones
HistoryKeep == 9
\* MAX_CACHE_SIZE of the offline cache
MAX_CACHE_SIZE == 20
\* the double-tap window and the delay of the single tap, in milliseconds
TapDelay == 300
\* the delay of the long press, in milliseconds
LongPressDelay == 500
\* the distance a swipe exceeds, and the distance a tap stays under
SwipeThreshold == 50
TapSlop == 10

Null == 0
\* no request handled yet, no Response returned yet
NoUpstream == [did |-> "none", status |-> 0, content |-> "none"]
NoRequest == [method |-> "none", body |-> "none", key |-> FALSE, upstream |-> NoUpstream]
NoResponse == [status |-> 0, headers |-> {}, body |-> "none"]
\* touchStartRef.current = null
NoTouch == [set |-> FALSE, time |-> 0, touchCount |-> 0]
Slots == 1..MaxCalls
CSlots == 1..MaxCaptures
Modes == {"surroundings", "reading", "navigation"}

VARIABLES
  \* ---- audio arbitration (EnhancedMainInterface.tsx) ----
  pc,                  \* per speakText invocation: "idle" | "tts" | "play"
  audio,               \* per invocation, its Audio element: "none" | "loading" | "playing" | "paused" | "failed"
  currentAudioRef,     \* the invocation whose Audio element the ref holds, or Null
  currentUtteranceRef, \* the invocation whose utterance the ref holds, or Null
  isSpeaking,
  synthSupported,      \* 'speechSynthesis' in window
  voicesLoaded,        \* speechSynthesis.getVoices().length > 0
  onvoiceschanged,     \* the invocation whose speakWithVoice is the handler, or Null
  synthQueue,          \* speechSynthesis' utterance queue (invocations), head first
  headStarted,         \* the head utterance is being spoken
  errPending,          \* utterances removed by cancel() are owed their error events
  fb,                  \* what the local speech path did in the last step: "none" | "unsupported" | "deferred" | "spoken" | "threw" | "error"
  toast,               \* title of the toast raised by the last step, "none" if none
  \* ---- capture, analysis, context (EnhancedMainInterface.tsx) ----
  isCapturing,
  isProcessing,
  isGettingContext,
  lastDescription,     \* 0 is the empty string; n > 0 is the description of the n-th successful response
  contextualInfo,      \* 0 is the empty string; 1 a received text
  currentMode,
  analysisHistory,     \* sequence of [type, description], newest first
  cpc,                 \* per captureImage invocation: "idle" | "camera" | "video" | "delay" | "analyze"
  cmode,               \* per invocation, the currentMode of the render whose callback runs
  ctxInFlight,         \* getContextualInfo invocations awaiting the contextual-info response
  described,           \* successful analysis responses so far
  spokenText,          \* the text analyzeImage last handed to speakText: <<>> before the first, else its parts in order
  \* ---- voice assistant (EnhancedMainInterface.tsx, useVoiceRecorder) ----
  isVoiceMode,
  capturedImageForVoice, \* TRUE: an image is stored; FALSE: null
  isRecording,
  isTranscribing,
  vpc,                 \* startVoiceAssistant: "idle" | "camera" | "video" | "delay" | "timer" | "mic"
  spc,                 \* stopVoiceAssistant: "idle" | "stopping" | "transcribe" | "analyze"
  vmode,               \* the currentMode of the render whose stopVoiceAssistant runs
  \* ---- floating overlay (overlayService.ts) ----
  platform,            \* Capacitor.getPlatform(): "android" | "ios" | "web"
  hasPermission,
  isSystemOverlayActive,
  persistentInterval,  \* TRUE: the 2-second monitor interval is armed; FALSE: null
  overlayStored,       \* localStorage 'blindvision-overlay-active': "none" | "true" | "false"
  buttonPresent,       \* the element 'blind-vision-floating-button' is in the document
  docVisible,          \* document.visibilityState === 'visible'
  handlersSet,         \* setupVisibilityHandlers has registered its listeners
  timers,              \* pending 500 ms restoration timeouts
  opc,                 \* showFloatingButton: "idle" | "perm" | "haptics"
  wanted,              \* showFloatingButton has succeeded and no client has called hideFloatingButton since
  iconSettings,        \* [style, transparency, rememberPosition]
  lastPosition,        \* [x, y]
  iconStored,          \* localStorage 'blindvision-icon-settings': <<>> if absent, else the JSON text
  positionStored,      \* localStorage 'blindvision-icon-position': <<>> if absent, else the JSON text
  buttonStyle,         \* style of the last created element: [left, top, right, borderRadius, clipPath, opacity]
  isDragging,          \* of the handlers of the last created element
  dragStart,           \* [x |-> startX, y |-> startY]
  dragInitial,         \* [x |-> initialX, y |-> initialY]
  \* ---- offline cache (useOfflineCache.ts) ----
  cache,               \* the cache state, newest first
  cacheStored,         \* localStorage 'blind-vision-cache': <<"absent">> or <<"list", entries>>
  cacheAdds,           \* addToCache calls so far
  \* ---- language and detail settings of the page (Index.tsx) ----
  idxMounted,          \* the Index component is mounted
  language,
  detailLevel,
  showSetup,
  langStored,          \* localStorage 'blindvision-language': "none" or the string
  detailStored,        \* localStorage 'blindvision-detail-level': "none" or the string
  setupStored,         \* localStorage 'blindvision-setup-complete': "none" | "true"
  idxChoice,           \* the language of the last setup completion or settings update, "none" before the first
  \* ---- language settings hook (useLanguagePersistence.ts) ----
  hpc,                 \* "unmounted" | "mounted"
  settings,            \* the settings state
  pendingSettings,     \* state updates enqueued by an effect and not yet rendered
  settingsStored,      \* localStorage 'blindvision-language-settings': <<"absent">> or the JSON text
  hookChoice,          \* the language of the last updateLanguage / resetSettings, "none" before the first
  \* ---- voice of the speech-synthesis fallback (speakWithVoice) ----
  voices,              \* speechSynthesis.getVoices(): the locales of the voices, in order
  utteranceVoice,      \* utterance.voice of the last utterance built: <<>> if not assigned, else the locale
  \* ---- voice commands (initializeVoiceRecognition, toggleVoiceCommands) ----
  voiceCommands,
  isListening,
  recognitionRef,      \* the recognition the ref holds; Null for none or for one that was never started
  rstate,              \* per recognition: "none" | "listening" | "failed" | "stopping" | "restart" | "retry"
  rclosure,            \* per recognition: the voiceCommands its handlers closed over
  initTimer,           \* the 3-second timeout of the mount effect is pending
  \* ---- analyze-image endpoint (supabase/functions/analyze-image) ----
  sentDetailLevel,     \* detailLevel of the last request body, "none" before the first
  promptUsed,          \* the key of basePrompts whose text the last request got
  maxTokens,           \* max_tokens of the last completion request
  \* ---- analysis providers (MainInterface.analyzeImage, FloatingIconSettings.tsx) ----
  isQuickMode,
  isModelLoaded,       \* the offline classifier's model is loaded
  apc,                 \* analyzeImage's position: "idle" | "classify" | "analyze-image" | "claude-analyze"
  aclosure,            \* isQuickMode and isModelLoaded as the running analyzeImage closed over them
  mainIsProcessing,    \* MainInterface's isProcessing
  mainLastDescription, \* the provider whose description is displayed, "none" before the first
  lastAnalysis,        \* source and detailLevel of setLastAnalysis
  calls,               \* the providers the last analyzeImage called, with their outcomes, in order
  raised,              \* the titles of the notifications the last analyzeImage raised, in order
  \* ---- gestures (useEnhancedGestures, unnamed/part_008) ----
  dateNow,             \* Date.now(), in milliseconds
  touchStartRef,       \* the time and touch count of the touch in progress; set is FALSE for null
  lastTapRef,
  longPressTimerRef,   \* Null or the touch whose long-press timeout the ref holds
  longPressTimers,     \* the pending long-press timeouts: the touch and the due time
  tapTimers,           \* the pending single-tap timeouts: the now each closed over and its due time
  touches,             \* how many touches have started
  quickTaps,           \* the times of the touch-ends that were quick taps, in order
  gestures,            \* the handlers called, in order, with the quick tap they were called for
  \* ---- emergency panel (EmergencyPanel.tsx) ----
  currentLocation,     \* the coordinates the interface passes to the panel, Null while unknown
  isGettingLocation,
  helpPc,              \* the handler awaiting the device: "idle" | "help" | "share"
  geoRequests,         \* calls of getCurrentPosition by the running handleFindNearbyHelp
  helps,               \* per handleFindNearbyHelp call: what it knew or obtained and the URLs it opened
  \* ---- analyze-image endpoint: the request handler (serve) ----
  openAIApiKey,        \* Deno.env.get('OPENAI_API_KEY') is set
  servePc,             \* "idle" | "fetching": the handler awaits the completion request
  handled,             \* the request being handled or handled last, and what the upstream did
  upstreamCalls,       \* fetch calls made for that request
  response,            \* the Response returned for it: status, headers, body
  \* ---- the 'stop' voice command (handleVoiceCommand) ----
  stale                \* the speakText invocations whose request was pending when the stop command ended

audioVars == <<pc, audio, currentAudioRef, currentUtteranceRef, isSpeaking, synthSupported,
               voicesLoaded, onvoiceschanged, synthQueue, headStarted, errPending>>

captureVars == <<isCapturing, isProcessing, isGettingContext, lastDescription, contextualInfo,
                 currentMode, analysisHistory, cpc, cmode, ctxInFlight, described>>

voiceVars == <<isVoiceMode, capturedImageForVoice, isRecording, isTranscribing, vpc, spc, vmode>>

overlayVars == <<platform, hasPermission, isSystemOverlayActive, persistentInterval, overlayStored,
                 buttonPresent, docVisible, handlersSet, timers, opc, wanted>>

iconVars == <<iconSettings, lastPosition, iconStored, positionStored, buttonStyle,
              isDragging, dragStart, dragInitial>>

cacheVars == <<cache, cacheStored, cacheAdds>>

indexVars == <<idxMounted, language, detailLevel, showSetup, langStored, detailStored,
               setupStored, idxChoice>>

hookVars == <<hpc, settings, pendingSettings, settingsStored, hookChoice>>

\* the state of the settings page, of the hooks and of the panels around the interface
choiceVars == <<voices, utteranceVoice>>

recogVars == <<voiceCommands, isListening, recognitionRef, rstate, rclosure, initTimer>>

endpointVars == <<sentDetailLevel, promptUsed, maxTokens>>

providerVars == <<isQuickMode, isModelLoaded, apc, aclosure, mainIsProcessing, mainLastDescription, lastAnalysis, calls, raised>>

gestureVars == <<dateNow, touchStartRef, lastTapRef, longPressTimerRef, longPressTimers, tapTimers, touches, quickTaps, gestures>>

helpVars == <<currentLocation, isGettingLocation, helpPc, geoRequests, helps>>

serveVars == <<openAIApiKey, servePc, handled, upstreamCalls, response>>

stopVars == <<stale>>

panelVars == <<indexVars, hookVars, choiceVars, recogVars, endpointVars, providerVars, gestureVars, helpVars, serveVars, stopVars>>

\* the overlay service: persistence and icon
serviceVars == <<overlayVars, iconVars>>

\* the interface and the services the panels do not touch
coreVars == <<audioVars, captureVars, voiceVars, serviceVars, cacheVars, spokenText>>

extVars == <<voiceVars, serviceVars, cacheVars, panelVars, spokenText>>

vars == <<audioVars, fb, toast, captureVars, extVars>>

(* ------------------------------------------------------------------ *)
(* Audio arbitration                                                   *)
(* ------------------------------------------------------------------ *)

\* An invocation slot can host a new speakText call when nothing of the previous
\* call that used it is left: no pending await, no Audio element alive, no
\* utterance queued or awaiting its error event, no ref or handler naming it.
SlotFree(k) ==
  /\ pc[k] = "idle"
  /\ audio[k] = "none"
  /\ \A i \in DOMAIN synthQueue : synthQueue[i] # k
  /\ currentAudioRef # k
  /\ currentUtteranceRef # k
  /\ (onvoiceschanged = k => voicesLoaded)

\* HTMLMediaElement.pause(): an element that is loading or playing stops; while
\* its play() promise is pending the promise will be rejected.
Paused(k) ==
  IF audio[k] \in {"loading", "playing"}
  THEN (IF pc[k] = "play" THEN "paused" ELSE "none")
  ELSE audio[k]

\* stopAllAudio, the Audio part: pause and rewind the referenced element.
StopAudioElems ==
  IF currentAudioRef # Null
  THEN [audio EXCEPT ![currentAudioRef] = Paused(currentAudioRef)]
  ELSE audio

\* speechSynthesis.cancel(): every utterance leaves the queue; the removed
\* utterances are owed their error events ("canceled" / "interrupted"), which
\* the browser delivers together.
CancelPending == errPending \/ synthQueue # <<>>

\* stopAllAudio()
StopAllAudio ==
  /\ audio' = StopAudioElems
  /\ currentAudioRef' = Null
  /\ IF synthSupported
     THEN /\ synthQueue' = <<>>
          /\ headStarted' = FALSE
          /\ errPending' = CancelPending
     ELSE UNCHANGED <<synthQueue, headStarted, errPending>>
  /\ currentUtteranceRef' = Null
  /\ isSpeaking' = FALSE

\* speakText(text), up to its first await: stopAllAudio(), setIsSpeaking(true),
\* and the openai-tts request is issued by invocation k.
SpeakText(k) ==
  /\ SlotFree(k)
  /\ audio' = StopAudioElems
  /\ currentAudioRef' = Null
  /\ IF synthSupported
     THEN /\ synthQueue' = <<>>
          /\ headStarted' = FALSE
          /\ errPending' = CancelPending
     ELSE UNCHANGED <<synthQueue, headStarted, errPending>>
  /\ currentUtteranceRef' = Null
  /\ isSpeaking' = TRUE
  /\ pc' = [pc EXCEPT ![k] = "tts"]
  /\ fb' = "none"
  /\ UNCHANGED <<synthSupported, voicesLoaded, onvoiceschanged>>

\* speakWithVoice of invocation k; `throws` is whether speechSynthesis.speak throws.
\* spk is the value of isSpeaking before the routine.
SpeakWithVoice(k, throws, spk) ==
  /\ IF currentUtteranceRef # Null
     THEN /\ errPending' = CancelPending
          /\ synthQueue' = (IF throws THEN <<>> ELSE <<k>>)
          /\ headStarted' = FALSE
     ELSE /\ errPending' = errPending
          /\ synthQueue' = (IF throws THEN synthQueue ELSE Append(synthQueue, k))
          /\ headStarted' = headStarted
  /\ currentUtteranceRef' = k
  /\ isSpeaking' = (IF throws THEN FALSE ELSE spk)
  /\ toast' = (IF throws THEN "Speech Not Available" ELSE "none")
  /\ fb' = (IF throws THEN "threw" ELSE "spoken")

\* Fallback with the "not supported" notification left out.
FallbackSilent(k, throws, spk) ==
  IF ~synthSupported
  THEN /\ isSpeaking' = FALSE
       /\ toast' = "none"
       /\ fb' = "unsupported"
       /\ UNCHANGED <<currentUtteranceRef, synthQueue, headStarted, errPending, onvoiceschanged>>
  ELSE IF ~voicesLoaded
  THEN /\ onvoiceschanged' = k
       /\ isSpeaking' = spk
       /\ toast' = "none"
       /\ fb' = "deferred"
       /\ UNCHANGED <<currentUtteranceRef, synthQueue, headStarted, errPending>>
  ELSE /\ SpeakWithVoice(k, throws, spk)
       /\ UNCHANGED onvoiceschanged

\* fallbackToSpeechSynthesis of invocation k.
Fallback(k, throws, spk) ==
  IF ~synthSupported
  THEN /\ isSpeaking' = FALSE
       /\ toast' = "Speech Not Available"
       /\ fb' = "unsupported"
       /\ UNCHANGED <<currentUtteranceRef, synthQueue, headStarted, errPending, onvoiceschanged>>
  ELSE IF ~voicesLoaded
  THEN /\ onvoiceschanged' = k
       /\ isSpeaking' = spk
       /\ toast' = "none"
       /\ fb' = "deferred"
       /\ UNCHANGED <<currentUtteranceRef, synthQueue, headStarted, errPending>>
  ELSE /\ SpeakWithVoice(k, throws, spk)
       /\ UNCHANGED onvoiceschanged

\* The openai-tts invocation returns an error or throws: catch, then fallback.
TtsError(k) ==
  /\ pc[k] = "tts"
  /\ pc' = [pc EXCEPT ![k] = "idle"]
  /\ \E throws \in BOOLEAN : Fallback(k, throws, FALSE)
  /\ UNCHANGED <<audio, currentAudioRef, synthSupported, voicesLoaded>>
  /\ UNCHANGED <<captureVars, extVars>>

\* The invocation returns without audioContent: straight to the fallback.
TtsEmpty(k) ==
  /\ pc[k] = "tts"
  /\ pc' = [pc EXCEPT ![k] = "idle"]
  /\ \E throws \in BOOLEAN : Fallback(k, throws, isSpeaking)
  /\ UNCHANGED <<audio, currentAudioRef, synthSupported, voicesLoaded>>
  /\ UNCHANGED <<captureVars, extVars>>

\* The invocation returns audio: the element is created, stored in
\* currentAudioRef and play() is awaited.
TtsAudio(k) ==
  /\ pc[k] = "tts"
  /\ pc' = [pc EXCEPT ![k] = "play"]
  /\ audio' = [audio EXCEPT ![k] = "loading"]
  /\ currentAudioRef' = k
  /\ fb' = "none"
  /\ toast' = "none"
  /\ UNCHANGED <<currentUtteranceRef, isSpeaking, synthSupported, voicesLoaded,
                 onvoiceschanged, synthQueue, headStarted, errPending>>
  /\ UNCHANGED <<captureVars, extVars>>

\* audio.play() resolves: playback has started, speakText returns.
PlayResolve(k) ==
  /\ pc[k] = "play"
  /\ audio[k] = "loading"
  /\ pc' = [pc EXCEPT ![k] = "idle"]
  /\ audio' = [audio EXCEPT ![k] = "playing"]
  /\ fb' = "none"
  /\ toast' = "none"
  /\ UNCHANGED <<currentAudioRef, currentUtteranceRef, isSpeaking, synthSupported, voicesLoaded,
                 onvoiceschanged, synthQueue, headStarted, errPending>>
  /\ UNCHANGED <<captureVars, extVars>>

\* audio.play() rejects (playback not allowed, the element was paused or failed
\* before playback began): catch, then fallback.
PlayReject(k) ==
  /\ pc[k] = "play"
  /\ audio[k] \in {"loading", "paused", "failed"}
  /\ pc' = [pc EXCEPT ![k] = "idle"]
  /\ audio' = [audio EXCEPT ![k] = "none"]
  /\ \E throws \in BOOLEAN : Fallback(k, throws, FALSE)
  /\ UNCHANGED <<currentAudioRef, synthSupported, voicesLoaded>>
  /\ UNCHANGED <<captureVars, extVars>>

\* audio.onended
AudioEnded(k) ==
  /\ audio[k] = "playing"
  /\ audio' = [audio EXCEPT ![k] = "none"]
  /\ isSpeaking' = FALSE
  /\ currentAudioRef' = Null
  /\ fb' = "none"
  /\ toast' = "none"
  /\ UNCHANGED <<pc, currentUtteranceRef, synthSupported, voicesLoaded,
                 onvoiceschanged, synthQueue, headStarted, errPending>>
  /\ UNCHANGED <<captureVars, extVars>>

\* audio.onerror
AudioError(k) ==
  /\ audio[k] \in {"loading", "playing"}
  /\ audio' = [audio EXCEPT ![k] = IF pc[k] = "play" THEN "failed" ELSE "none"]
  /\ currentAudioRef' = Null
  /\ \E throws \in BOOLEAN : Fallback(k, throws, FALSE)
  /\ UNCHANGED <<pc, synthSupported, voicesLoaded>>
  /\ UNCHANGED <<captureVars, extVars>>

\* utterance.onstart of the head of the queue
UttStart ==
  /\ synthQueue # <<>>
  /\ ~headStarted
  /\ headStarted' = TRUE
  /\ isSpeaking' = TRUE
  /\ fb' = "none"
  /\ toast' = "none"
  /\ UNCHANGED <<pc, audio, currentAudioRef, currentUtteranceRef, synthSupported, voicesLoaded,
                 onvoiceschanged, synthQueue, errPending>>
  /\ UNCHANGED <<captureVars, extVars>>

\* utterance.onend of the utterance being spoken
UttEnd ==
  /\ synthQueue # <<>>
  /\ headStarted
  /\ synthQueue' = Tail(synthQueue)
  /\ headStarted' = FALSE
  /\ isSpeaking' = FALSE
  /\ currentUtteranceRef' = Null
  /\ fb' = "none"
  /\ toast' = "none"
  /\ UNCHANGED <<pc, audio, currentAudioRef, synthSupported, voicesLoaded,
                 onvoiceschanged, errPending>>
  /\ UNCHANGED <<captureVars, extVars>>

\* utterance.onerror that also drops the displayed description.
UttErrorClears ==
  /\ synthQueue # <<>>
  /\ synthQueue' = Tail(synthQueue)
  /\ headStarted' = FALSE
  /\ isSpeaking' = FALSE
  /\ currentUtteranceRef' = Null
  /\ fb' = "error"
  /\ toast' = "Speech Temporarily Unavailable"
  /\ lastDescription' = 0
  /\ UNCHANGED <<pc, audio, currentAudioRef, synthSupported, voicesLoaded,
                 onvoiceschanged, errPending>>
  /\ UNCHANGED <<isCapturing, isProcessing, isGettingContext, contextualInfo,
                 currentMode, analysisHistory, cpc, cmode, ctxInFlight, described>>
  /\ UNCHANGED extVars

\* utterance.onerror of the head of the queue (synthesis failed)
UttError ==
  /\ synthQueue # <<>>
  /\ synthQueue' = Tail(synthQueue)
  /\ headStarted' = FALSE
  /\ isSpeaking' = FALSE
  /\ currentUtteranceRef' = Null
  /\ fb' = "error"
  /\ toast' = "Speech Temporarily Unavailable"
  /\ UNCHANGED <<pc, audio, currentAudioRef, synthSupported, voicesLoaded,
                 onvoiceschanged, errPending>>
  /\ UNCHANGED <<captureVars, extVars>>

\* utterance.onerror of the utterances removed by cancel()
UttCancelled ==
  /\ errPending
  /\ errPending' = FALSE
  /\ isSpeaking' = FALSE
  /\ currentUtteranceRef' = Null
  /\ fb' = "error"
  /\ toast' = "Speech Temporarily Unavailable"
  /\ UNCHANGED <<pc, audio, currentAudioRef, synthSupported, voicesLoaded,
                 onvoiceschanged, synthQueue, headStarted>>
  /\ UNCHANGED <<captureVars, extVars>>

\* speechSynthesis fires voiceschanged: the voice list is filled and the
\* registered speakWithVoice, if any, runs.
VoicesChanged ==
  /\ synthSupported
  /\ ~voicesLoaded
  /\ voicesLoaded' = TRUE
  /\ IF onvoiceschanged # Null
     THEN \E throws \in BOOLEAN : SpeakWithVoice(onvoiceschanged, throws, isSpeaking)
     ELSE /\ fb' = "none"
          /\ toast' = "none"
          /\ UNCHANGED <<currentUtteranceRef, isSpeaking, synthQueue, headStarted, errPending>>
  /\ UNCHANGED <<pc, audio, currentAudioRef, synthSupported, onvoiceschanged>>
  /\ UNCHANGED <<captureVars, extVars>>

\* Escape key: stopAllAudio()
PressEscape ==
  /\ StopAllAudio
  /\ fb' = "none"
  /\ toast' = "none"
  /\ UNCHANGED <<pc, synthSupported, voicesLoaded, onvoiceschanged>>
  /\ UNCHANGED <<captureVars, extVars>>

\* The invocation a new speakText call gets: the first free one.
NewCall(k) == SlotFree(k) /\ \A j \in Slots : j < k => ~SlotFree(j)

\* 'h' key: speakText(help text)
PressHelp ==
  /\ \E k \in Slots : NewCall(k) /\ SpeakText(k)
  /\ toast' = "none"
  /\ UNCHANGED <<captureVars, extVars>>

(* ------------------------------------------------------------------ *)
(* Capture, analysis and contextual information                        *)
(* ------------------------------------------------------------------ *)

Min(a, b) == IF a < b THEN a ELSE b

isLoading == isCapturing \/ isProcessing \/ isTranscribing

Destructive == {"Speech Not Available", "Speech Temporarily Unavailable", "Analysis Failed",
                "Camera Error", "Context Failed", "Voice Assistant Error",
                "Voice Processing Failed"}

\* Title of the toast of a successful analysis (quick mode off).
CompleteTitle(m) ==
  IF m = "reading" THEN "Text Analysis Complete"
  ELSE IF m = "navigation" THEN "Navigation Analysis Complete"
  ELSE "Scene Analysis Complete"

\* modePrefix of analyzeImage, as the parts it prepends to the description
ModePrefix(question, m) ==
  IF question THEN <<"Answer: ">>
  ELSE IF m = "reading" THEN <<"Text found: ">>
  ELSE IF m = "navigation" THEN <<"Navigation guidance: ">>
  ELSE <<>>

\* setAnalysisHistory(prev => [newEntry, ...prev.slice(0, 9)])
Prepend(entry, prev) == <<entry>> \o SubSeq(prev, 1, Min(Len(prev), HistoryKeep))

\* The invocation a new captureImage call gets: the first idle one.
NewCapture(c) == cpc[c] = "idle" /\ \A j \in CSlots : j < c => cpc[j] # "idle"

\* captureImage() up to its first await: setIsCapturing(true), getUserMedia requested.
CaptureImage(c) ==
  /\ NewCapture(c)
  /\ isCapturing' = TRUE
  /\ cpc' = [cpc EXCEPT ![c] = "camera"]
  /\ cmode' = [cmode EXCEPT ![c] = currentMode]
  /\ toast' = "none"
  /\ UNCHANGED <<isProcessing, isGettingContext, lastDescription, contextualInfo, currentMode,
                 analysisHistory, ctxInFlight, described>>
  /\ fb' = "none"
  /\ UNCHANGED <<audioVars, extVars>>

\* Capture button, Space or Enter: only while not loading and not in voice mode.
PressCapture ==
  /\ ~isLoading
  /\ ~isVoiceMode
  /\ \E c \in CSlots : CaptureImage(c)

\* 'blindvision-capture-request' from the floating button (the listener is
\* registered on native platforms): captureImage() unguarded.
CaptureRequest ==
  /\ platform \in {"android", "ios"}
  /\ \E c \in CSlots : CaptureImage(c)

\* captureImage ends: finally { setIsCapturing(false) }, with toast title t ("none": no toast).
CaptureEnds(c, t) ==
  /\ cpc' = [cpc EXCEPT ![c] = "idle"]
  /\ isCapturing' = FALSE
  /\ toast' = t
  /\ UNCHANGED <<isProcessing, isGettingContext, lastDescription, contextualInfo, currentMode,
                 analysisHistory, cmode, ctxInFlight, described>>
  /\ fb' = "none"
  /\ UNCHANGED <<audioVars, extVars>>

\* getUserMedia resolves and the video and canvas elements exist: video.play() awaited.
CameraGranted(c) ==
  /\ cpc[c] = "camera"
  /\ cpc' = [cpc EXCEPT ![c] = "video"]
  /\ toast' = "none"
  /\ UNCHANGED <<isCapturing, isProcessing, isGettingContext, lastDescription, contextualInfo,
                 currentMode, analysisHistory, cmode, ctxInFlight, described>>
  /\ fb' = "none"
  /\ UNCHANGED <<audioVars, extVars>>

\* getUserMedia rejects: catch, "Camera Error".
CameraDenied(c) ==
  /\ cpc[c] = "camera"
  /\ CaptureEnds(c, "Camera Error")

\* getUserMedia resolves but videoRef or canvasRef is empty: return.
CameraNoElement(c) ==
  /\ cpc[c] = "camera"
  /\ CaptureEnds(c, "none")

\* video.play() resolves: the one-second stabilising delay is awaited.
VideoPlaying(c) ==
  /\ cpc[c] = "video"
  /\ cpc' = [cpc EXCEPT ![c] = "delay"]
  /\ toast' = "none"
  /\ UNCHANGED <<isCapturing, isProcessing, isGettingContext, lastDescription, contextualInfo,
                 currentMode, analysisHistory, cmode, ctxInFlight, described>>
  /\ fb' = "none"
  /\ UNCHANGED <<audioVars, extVars>>

\* video.play() rejects: catch, "Camera Error".
VideoFailed(c) ==
  /\ cpc[c] = "video"
  /\ CaptureEnds(c, "Camera Error")

\* The delay elapses, the frame is drawn and analyzeImage starts:
\* setIsProcessing(true), the analyze-image request is issued.
DelayElapsed(c) ==
  /\ cpc[c] = "delay"
  /\ cpc' = [cpc EXCEPT ![c] = "analyze"]
  /\ isProcessing' = TRUE
  /\ toast' = "none"
  /\ UNCHANGED <<isCapturing, isGettingContext, lastDescription, contextualInfo, currentMode,
                 analysisHistory, cmode, ctxInFlight, described>>
  /\ fb' = "none"
  /\ UNCHANGED <<audioVars, extVars>>

\* The delay elapses but the canvas gives no 2d context: return.
DelayNoContext(c) ==
  /\ cpc[c] = "delay"
  /\ CaptureEnds(c, "none")

\* AnalyzeOk with the entry typed by the mode selected when the response arrives.
AnalyzeOkLiveMode(c) ==
  /\ cpc[c] = "analyze"
  /\ cpc' = [cpc EXCEPT ![c] = "idle"]
  /\ described' = described + 1
  /\ lastDescription' = described + 1
  /\ analysisHistory' = Prepend([type |-> currentMode, description |-> described + 1], analysisHistory)
  /\ \E k \in Slots : NewCall(k) /\ SpeakText(k)
  /\ toast' = CompleteTitle(cmode[c])
  /\ isProcessing' = FALSE
  /\ isCapturing' = FALSE
  /\ spokenText' = ModePrefix(FALSE, cmode[c]) \o <<described + 1>>
  /\ UNCHANGED <<isGettingContext, contextualInfo, currentMode, cmode, ctxInFlight>>
  /\ UNCHANGED <<voiceVars, serviceVars, cacheVars, panelVars>>

\* AnalyzeOk storing the description of the response before this one.
AnalyzeOkStoresPrevious(c) ==
  /\ cpc[c] = "analyze"
  /\ cpc' = [cpc EXCEPT ![c] = "idle"]
  /\ described' = described + 1
  /\ lastDescription' = described
  /\ analysisHistory' = Prepend([type |-> cmode[c], description |-> described + 1], analysisHistory)
  /\ \E k \in Slots : NewCall(k) /\ SpeakText(k)
  /\ toast' = CompleteTitle(cmode[c])
  /\ isProcessing' = FALSE
  /\ isCapturing' = FALSE
  /\ spokenText' = ModePrefix(FALSE, cmode[c]) \o <<described + 1>>
  /\ UNCHANGED <<isGettingContext, contextualInfo, currentMode, cmode, ctxInFlight>>
  /\ UNCHANGED <<voiceVars, serviceVars, cacheVars, panelVars>>

\* The analyze-image response carries a description: it is stored, the entry is
\* prepended, the description is spoken, the toast raised; then both finally
\* blocks run (analyzeImage's and captureImage's).
AnalyzeOk(c) ==
  /\ cpc[c] = "analyze"
  /\ cpc' = [cpc EXCEPT ![c] = "idle"]
  /\ described' = described + 1
  /\ lastDescription' = described + 1
  /\ analysisHistory' = Prepend([type |-> cmode[c], description |-> described + 1], analysisHistory)
  /\ \E k \in Slots : NewCall(k) /\ SpeakText(k)
  /\ toast' = CompleteTitle(cmode[c])
  /\ isProcessing' = FALSE
  /\ isCapturing' = FALSE
  /\ spokenText' = ModePrefix(FALSE, cmode[c]) \o <<described + 1>>
  /\ UNCHANGED <<isGettingContext, contextualInfo, currentMode, cmode, ctxInFlight>>
  /\ UNCHANGED <<voiceVars, serviceVars, cacheVars, panelVars>>

\* AnalyzeFail with setIsProcessing(false) outside the finally block: skipped on failure.
AnalyzeFailKeepsFlag(c) ==
  /\ cpc[c] = "analyze"
  /\ cpc' = [cpc EXCEPT ![c] = "idle"]
  /\ toast' = "Analysis Failed"
  /\ isCapturing' = FALSE
  /\ UNCHANGED <<isProcessing, isGettingContext, lastDescription, contextualInfo, currentMode,
                 analysisHistory, cmode, ctxInFlight, described>>
  /\ fb' = "none"
  /\ UNCHANGED <<audioVars, extVars>>

\* The invocation returns an error, throws, or the response has no description:
\* "Analysis Failed"; then both finally blocks run.
AnalyzeFail(c) ==
  /\ cpc[c] = "analyze"
  /\ cpc' = [cpc EXCEPT ![c] = "idle"]
  /\ toast' = "Analysis Failed"
  /\ isProcessing' = FALSE
  /\ isCapturing' = FALSE
  /\ UNCHANGED <<isGettingContext, lastDescription, contextualInfo, currentMode, analysisHistory,
                 cmode, ctxInFlight, described>>
  /\ fb' = "none"
  /\ UNCHANGED <<audioVars, extVars>>

\* getContextualInfo() up to its await ('i' key, More Info button, voice command).
GetContextualInfo ==
  /\ lastDescription # 0
  /\ ctxInFlight < MaxContext
  /\ ctxInFlight' = ctxInFlight + 1
  /\ isGettingContext' = TRUE
  /\ toast' = "none"
  /\ UNCHANGED <<isCapturing, isProcessing, lastDescription, contextualInfo, currentMode,
                 analysisHistory, cpc, cmode, described>>
  /\ fb' = "none"
  /\ UNCHANGED <<audioVars, extVars>>

\* The contextual-info response carries contextualInfo: stored and spoken.
ContextOk ==
  /\ ctxInFlight > 0
  /\ ctxInFlight' = ctxInFlight - 1
  /\ contextualInfo' = 1
  /\ \E k \in Slots : NewCall(k) /\ SpeakText(k)
  /\ toast' = "Context Added"
  /\ isGettingContext' = FALSE
  /\ UNCHANGED <<isCapturing, isProcessing, lastDescription, currentMode, analysisHistory,
                 cpc, cmode, described>>
  /\ UNCHANGED extVars

\* The invocation returns an error, throws, or the response has no contextualInfo.
ContextFail ==
  /\ ctxInFlight > 0
  /\ ctxInFlight' = ctxInFlight - 1
  /\ toast' = "Context Failed"
  /\ isGettingContext' = FALSE
  /\ UNCHANGED <<isCapturing, isProcessing, lastDescription, contextualInfo, currentMode,
                 analysisHistory, cpc, cmode, described>>
  /\ fb' = "none"
  /\ UNCHANGED <<audioVars, extVars>>

\* The key that selects mode m.
ModeKey(m) == IF m = "surroundings" THEN 1 ELSE IF m = "reading" THEN 2 ELSE 3

\* Keys '1', '2', '3': setCurrentMode(m) and speakText("... mode selected").
SetMode(m) ==
  /\ currentMode' = m
  /\ \E k \in Slots : NewCall(k) /\ SpeakText(k)
  /\ toast' = "none"
  /\ UNCHANGED <<isCapturing, isProcessing, isGettingContext, lastDescription, contextualInfo,
                 analysisHistory, cpc, cmode, ctxInFlight, described>>
  /\ UNCHANGED extVars

\* AnalysisHistory "clear all": onClear() empties the list, speakText, toast.
ClearHistory ==
  /\ analysisHistory # <<>>
  /\ analysisHistory' = <<>>
  /\ \E k \in Slots : NewCall(k) /\ SpeakText(k)
  /\ toast' = "History Cleared"
  /\ UNCHANGED <<isCapturing, isProcessing, isGettingContext, lastDescription, contextualInfo,
                 currentMode, cpc, cmode, ctxInFlight, described>>
  /\ UNCHANGED extVars

(* ------------------------------------------------------------------ *)
(* Voice assistant                                                     *)
(* ------------------------------------------------------------------ *)

captureRest == <<isGettingContext, contextualInfo, currentMode, cpc, cmode, ctxInFlight>>

analysisVars == <<isProcessing, lastDescription, analysisHistory, described>>

\* A step of the voice assistant that calls no speakText and touches no analysis state.
VoiceStep(t) ==
  /\ toast' = t
  /\ fb' = "none"
  /\ UNCHANGED <<audioVars, captureRest, serviceVars, cacheVars, panelVars, spokenText>>

\* startVoiceAssistant() up to its first await ('v' key, Voice Assistant button):
\* setIsVoiceMode(true), setIsCapturing(true), getUserMedia requested.
StartVoiceAssistant ==
  /\ ~isLoading
  /\ ~isVoiceMode
  /\ vpc = "idle"
  /\ isVoiceMode' = TRUE
  /\ isCapturing' = TRUE
  /\ vpc' = "camera"
  /\ VoiceStep("none")
  /\ UNCHANGED <<capturedImageForVoice, isRecording, isTranscribing, spc, vmode, analysisVars>>

\* catch of startVoiceAssistant: both flags cleared, "Voice Assistant Error".
VoiceStartCaught ==
  /\ isVoiceMode' = FALSE
  /\ isCapturing' = FALSE
  /\ vpc' = "idle"
  /\ VoiceStep("Voice Assistant Error")
  /\ UNCHANGED <<capturedImageForVoice, isRecording, isTranscribing, spc, vmode, analysisVars>>

\* An early `return` of startVoiceAssistant: nothing is reset, nothing is raised.
VoiceStartReturns ==
  /\ vpc' = "idle"
  /\ VoiceStep("none")
  /\ UNCHANGED <<isVoiceMode, isCapturing, capturedImageForVoice, isRecording, isTranscribing,
                 spc, vmode, analysisVars>>

\* startVoiceAssistant moves on to its next await.
VoiceStartAwaits(next) ==
  /\ vpc' = next
  /\ VoiceStep("none")
  /\ UNCHANGED <<isVoiceMode, isCapturing, capturedImageForVoice, isRecording, isTranscribing,
                 spc, vmode, analysisVars>>

VoiceCameraGranted == vpc = "camera" /\ VoiceStartAwaits("video")

VoiceCameraDenied == vpc = "camera" /\ VoiceStartCaught

\* getUserMedia resolves but videoRef or canvasRef is empty.
VoiceCameraNoElement == vpc = "camera" /\ VoiceStartReturns

VoiceVideoPlaying == vpc = "video" /\ VoiceStartAwaits("delay")

VoiceVideoFailed == vpc = "video" /\ VoiceStartCaught

\* The canvas gives no 2d context.
VoiceDelayNoContext == vpc = "delay" /\ VoiceStartReturns

\* The frame is stored, setIsCapturing(false), speakText("Image captured..."),
\* and the 2000 ms timeout that will start the recording is set.
VoiceImageCaptured ==
  /\ vpc = "delay"
  /\ capturedImageForVoice' = TRUE
  /\ isCapturing' = FALSE
  /\ \E k \in Slots : NewCall(k) /\ SpeakText(k)
  /\ vpc' = "timer"
  /\ toast' = "none"
  /\ UNCHANGED <<isVoiceMode, isRecording, isTranscribing, spc, vmode, analysisVars>>
  /\ UNCHANGED <<captureRest, serviceVars, cacheVars, panelVars, spokenText>>

\* The timeout callback runs: startRecording() requests the microphone.
VoiceTimerFires == vpc = "timer" /\ VoiceStartAwaits("mic")

\* getUserMedia({audio}) resolves: the recorder starts, setIsRecording(true),
\* and the callback raises "Voice Assistant Active".
RecordingStarted ==
  /\ vpc = "mic"
  /\ isRecording' = TRUE
  /\ vpc' = "idle"
  /\ VoiceStep("Voice Assistant Active")
  /\ UNCHANGED <<isVoiceMode, isCapturing, capturedImageForVoice, isTranscribing, spc, vmode,
                 analysisVars>>

\* getUserMedia({audio}) rejects: startRecording rethrows inside the timeout
\* callback, outside startVoiceAssistant's try: nothing catches it.
RecordingFailed == vpc = "mic" /\ VoiceStartReturns

\* Main button or Space/Enter in voice mode while not recording:
\* setIsVoiceMode(false), setCapturedImageForVoice(null).
CancelVoiceMode ==
  /\ isVoiceMode
  /\ ~isRecording
  /\ ~isLoading
  /\ isVoiceMode' = FALSE
  /\ capturedImageForVoice' = FALSE
  /\ VoiceStep("none")
  /\ UNCHANGED <<isCapturing, isRecording, isTranscribing, vpc, spc, vmode, analysisVars>>

\* finally of stopVoiceAssistant, after toast t.
VoiceStopEnds(t) ==
  /\ isVoiceMode' = FALSE
  /\ capturedImageForVoice' = FALSE
  /\ spc' = "idle"
  /\ toast' = t

\* stopVoiceAssistant() (main button or Space/Enter while recording in voice
\* mode): without a stored image it throws; otherwise stopRecording() stops the
\* recorder and setIsRecording(false).
StopVoiceAssistant ==
  /\ isVoiceMode
  /\ isRecording
  /\ spc = "idle"
  /\ IF ~capturedImageForVoice
     THEN /\ VoiceStopEnds("Voice Processing Failed")
          /\ UNCHANGED <<isRecording, vmode>>
     ELSE /\ isRecording' = FALSE
          /\ spc' = "stopping"
          /\ vmode' = currentMode
          /\ toast' = "none"
          /\ UNCHANGED <<isVoiceMode, capturedImageForVoice>>
  /\ fb' = "none"
  /\ UNCHANGED <<isCapturing, isTranscribing, vpc, analysisVars>>
  /\ UNCHANGED <<audioVars, captureRest, serviceVars, cacheVars, panelVars, spokenText>>

\* The recorder's onstop: setIsTranscribing(true), the speech-to-text request is issued.
RecorderStopped ==
  /\ spc = "stopping"
  /\ isTranscribing' = TRUE
  /\ spc' = "transcribe"
  /\ VoiceStep("none")
  /\ UNCHANGED <<isVoiceMode, isCapturing, capturedImageForVoice, isRecording, vpc, vmode,
                 analysisVars>>

\* The transcript arrives and is not blank: "Processing Question", analyzeImage
\* starts with the question.
TranscribeOk ==
  /\ spc = "transcribe"
  /\ isTranscribing' = FALSE
  /\ isProcessing' = TRUE
  /\ spc' = "analyze"
  /\ VoiceStep("Processing Question")
  /\ UNCHANGED <<isVoiceMode, isCapturing, capturedImageForVoice, isRecording, vpc, vmode,
                 lastDescription, analysisHistory, described>>

\* The transcript is blank, the transcription request fails or the audio cannot
\* be read: setIsTranscribing(false), catch, "Voice Processing Failed", finally.
TranscribeFails ==
  /\ spc = "transcribe"
  /\ isTranscribing' = FALSE
  /\ VoiceStopEnds("Voice Processing Failed")
  /\ fb' = "none"
  /\ UNCHANGED <<isCapturing, isRecording, vpc, vmode, analysisVars>>
  /\ UNCHANGED <<audioVars, captureRest, serviceVars, cacheVars, panelVars, spokenText>>

\* analyzeImage(image, question) succeeds: as AnalyzeOk, with the toast of an
\* answered question; then the finally blocks of analyzeImage and stopVoiceAssistant.
VoiceAnalyzeOk ==
  /\ spc = "analyze"
  /\ described' = described + 1
  /\ lastDescription' = described + 1
  /\ analysisHistory' = Prepend([type |-> vmode, description |-> described + 1], analysisHistory)
  /\ \E k \in Slots : NewCall(k) /\ SpeakText(k)
  /\ isProcessing' = FALSE
  /\ spokenText' = ModePrefix(TRUE, vmode) \o <<described + 1>>
  /\ VoiceStopEnds("Voice Question Answered")
  /\ UNCHANGED <<isCapturing, isRecording, isTranscribing, vpc, vmode>>
  /\ UNCHANGED <<captureRest, serviceVars, cacheVars, panelVars>>

\* analyzeImage(image, question) fails: its own catch raises "Analysis Failed";
\* then the finally blocks.
VoiceAnalyzeFail ==
  /\ spc = "analyze"
  /\ isProcessing' = FALSE
  /\ VoiceStopEnds("Analysis Failed")
  /\ fb' = "none"
  /\ UNCHANGED <<isCapturing, isRecording, isTranscribing, vpc, vmode, lastDescription,
                 analysisHistory, described>>
  /\ UNCHANGED <<audioVars, captureRest, serviceVars, cacheVars, panelVars, spokenText>>

VoiceInit ==
  /\ isVoiceMode = FALSE
  /\ capturedImageForVoice = FALSE
  /\ isRecording = FALSE
  /\ isTranscribing = FALSE
  /\ vpc = "idle"
  /\ spc = "idle"
  /\ vmode = "surroundings"

VoiceSteps ==
  \/ VoiceCameraGranted
  \/ VoiceCameraDenied
  \/ VoiceCameraNoElement
  \/ VoiceVideoPlaying
  \/ VoiceVideoFailed
  \/ VoiceDelayNoContext
  \/ VoiceImageCaptured
  \/ VoiceTimerFires
  \/ RecordingStarted
  \/ RecordingFailed
  \/ CancelVoiceMode
  \/ StopVoiceAssistant
  \/ RecorderStopped
  \/ TranscribeOk
  \/ TranscribeFails
  \/ VoiceAnalyzeOk
  \/ VoiceAnalyzeFail

(* ------------------------------------------------------------------ *)
(* Floating overlay (NativeOverlayService)                             *)
(* ------------------------------------------------------------------ *)

\* JSON.stringify of an object with the given keys: the text as the
\* sequence key, value, key, value, ...
Stringify(obj, keys) ==
  [i \in 1..(2 * Len(keys)) |-> IF i % 2 = 1 THEN keys[(i + 1) \div 2] ELSE obj[keys[i \div 2]]]

\* { ...base, ...JSON.parse(text) }: the keys of the text override those of base
ParseOver(base, text) ==
  [f \in DOMAIN base |->
     IF \E i \in 1..(Len(text) \div 2) : text[2 * i - 1] = f
       THEN text[2 * (CHOOSE i \in 1..(Len(text) \div 2) : text[2 * i - 1] = f)]
       ELSE base[f]]

Platforms == {"android", "ios", "web"}

\* Capacitor.isNativePlatform()
Native == platform \in {"android", "ios"}

\* What a step of the overlay service leaves alone.
ServiceStep ==
  /\ toast' = "none"
  /\ fb' = "none"
  /\ UNCHANGED <<audioVars, captureVars, voiceVars, cacheVars, panelVars, spokenText, platform>>

\* A step of the service that touches neither the icon settings nor the element's style.
OverlayStep ==
  /\ ServiceStep
  /\ UNCHANGED iconVars

DefaultPosition == [x |-> 20, y |-> 20]
DefaultIconSettings == [style |-> "circle", transparency |-> 90, rememberPosition |-> TRUE]
IconKeys == <<"style", "transparency", "rememberPosition">>
PositionKeys == <<"x", "y">>
Origin == [x |-> 0, y |-> 0]

\* getButtonStyles(): shape, opacity and placement from the settings and lastPosition
GetButtonStyles(st, pos) ==
  [ top |-> IF st.rememberPosition THEN pos.y ELSE DefaultPosition.y,
    right |-> IF st.rememberPosition THEN "auto" ELSE "20px",
    left |-> IF st.rememberPosition THEN pos.x ELSE "auto",
    borderRadius |-> CASE st.style = "square" -> "15%"
                       [] st.style = "heart" -> "50% 50% 50% 50% / 60% 60% 40% 40%"
                       [] st.style = "star" -> "0"
                       [] OTHER -> "50%",
    clipPath |-> IF st.style = "star" THEN "polygon" ELSE "none",
    opacity |-> <<st.transparency, 100>> ]

\* loadSettings(): the stored settings are merged over the current ones; the
\* stored position is read only when rememberPosition is set.
LoadSettings ==
  /\ iconSettings' = IF iconStored # <<>> THEN ParseOver(iconSettings, iconStored) ELSE iconSettings
  /\ lastPosition' = IF iconSettings'.rememberPosition /\ positionStored # <<>>
                       THEN ParseOver(Origin, positionStored)
                       ELSE lastPosition

\* The element createFloatingButton() builds: styled by getButtonStyles(),
\* with new drag handlers whose locals start at zero.
NewButton ==
  /\ buttonStyle' = GetButtonStyles(iconSettings, lastPosition)
  /\ isDragging' = FALSE
  /\ dragStart' = Origin
  /\ dragInitial' = Origin
  /\ UNCHANGED <<iconSettings, lastPosition, iconStored, positionStored>>

\* hideFloatingButton() up to its only await: the flag, the stored flag, the
\* monitor interval (disableSystemPersistence) and the element.
HideEffects ==
  /\ isSystemOverlayActive' = FALSE
  /\ overlayStored' = "false"
  /\ persistentInterval' = FALSE

\* createFloatingButton(): this.hideFloatingButton(), then a new element is
\* appended to the document.
CreateFloatingButton ==
  /\ HideEffects
  /\ buttonPresent' = TRUE
  /\ NewButton

\* showFloatingButton() up to its first await. Without the permission,
\* requestOverlayPermission runs: on android hasPermission is set before the
\* notification permission is awaited, on the web it returns false and
\* showFloatingButton throws. With the permission, Haptics.impact is awaited.
ShowFloatingButton ==
  /\ opc = "idle"
  /\ IF hasPermission
     THEN /\ opc' = "haptics"
          /\ LoadSettings
          /\ UNCHANGED hasPermission
     ELSE /\ hasPermission' = (platform = "android")
          /\ opc' = IF Native THEN "perm" ELSE "idle"
          /\ UNCHANGED <<iconSettings, lastPosition>>
  /\ UNCHANGED <<isSystemOverlayActive, persistentInterval, overlayStored, buttonPresent,
                 docVisible, handlersSet, timers, wanted>>
  /\ UNCHANGED <<iconStored, positionStored, buttonStyle, isDragging, dragStart, dragInitial>>
  /\ ServiceStep

\* LocalNotifications.requestPermissions() resolves: the permission is held,
\* settings are loaded and Haptics.impact is awaited.
PermissionResolved ==
  /\ opc = "perm"
  /\ hasPermission' = TRUE
  /\ opc' = "haptics"
  /\ LoadSettings
  /\ UNCHANGED <<isSystemOverlayActive, persistentInterval, overlayStored, buttonPresent,
                 docVisible, handlersSet, timers, wanted>>
  /\ UNCHANGED <<iconStored, positionStored, buttonStyle, isDragging, dragStart, dragInitial>>
  /\ ServiceStep

\* LocalNotifications.requestPermissions() rejects: requestOverlayPermission
\* returns false and showFloatingButton throws.
PermissionRejected ==
  /\ opc = "perm"
  /\ opc' = "idle"
  /\ UNCHANGED <<hasPermission, isSystemOverlayActive, persistentInterval, overlayStored,
                 buttonPresent, docVisible, handlersSet, timers, wanted>>
  /\ OverlayStep

\* Haptics.impact resolves: createFloatingButton(), enableSystemPersistence()
\* (the monitor interval and the visibility handlers), the flag and the stored
\* flag are set.
HapticsResolved ==
  /\ opc = "haptics"
  /\ opc' = "idle"
  /\ buttonPresent' = TRUE
  /\ persistentInterval' = TRUE
  /\ handlersSet' = TRUE
  /\ isSystemOverlayActive' = TRUE
  /\ overlayStored' = "true"
  /\ wanted' = TRUE
  /\ NewButton
  /\ UNCHANGED <<hasPermission, docVisible, timers>>
  /\ ServiceStep

\* Haptics.impact rejects: showFloatingButton throws before creating anything.
HapticsRejected ==
  /\ opc = "haptics"
  /\ opc' = "idle"
  /\ UNCHANGED <<hasPermission, isSystemOverlayActive, persistentInterval, overlayStored,
                 buttonPresent, docVisible, handlersSet, timers, wanted>>
  /\ OverlayStep

\* A client calls hideFloatingButton().
HideFloatingButton ==
  /\ HideEffects
  /\ buttonPresent' = FALSE
  /\ wanted' = FALSE
  /\ UNCHANGED <<hasPermission, docVisible, handlersSet, timers, opc>>
  /\ OverlayStep

\* The element leaves the document by something other than the service.
ButtonRemoved ==
  /\ buttonPresent
  /\ buttonPresent' = FALSE
  /\ UNCHANGED <<hasPermission, isSystemOverlayActive, persistentInterval, overlayStored,
                 docVisible, handlersSet, timers, opc, wanted>>
  /\ OverlayStep

\* A tick of the 2-second monitor that finds the overlay active, the element
\* absent and the document visible: createFloatingButton().
MonitorTick ==
  /\ persistentInterval
  /\ isSystemOverlayActive
  /\ ~buttonPresent
  /\ docVisible
  /\ CreateFloatingButton
  /\ UNCHANGED <<hasPermission, docVisible, handlersSet, timers, opc, wanted>>
  /\ ServiceStep

\* 'visibilitychange': when the document becomes visible while the overlay is
\* active, the handler sets a 500 ms timeout.
VisibilityChange ==
  /\ docVisible' = ~docVisible
  /\ IF ~docVisible /\ handlersSet /\ isSystemOverlayActive
     THEN timers < MaxTimers /\ timers' = timers + 1
     ELSE UNCHANGED timers
  /\ UNCHANGED <<hasPermission, isSystemOverlayActive, persistentInterval, overlayStored,
                 buttonPresent, handlersSet, opc, wanted>>
  /\ OverlayStep

\* window 'focus' while the overlay is active: a 500 ms timeout is set.
WindowFocus ==
  /\ handlersSet
  /\ isSystemOverlayActive
  /\ timers < MaxTimers
  /\ timers' = timers + 1
  /\ UNCHANGED <<hasPermission, isSystemOverlayActive, persistentInterval, overlayStored,
                 buttonPresent, docVisible, handlersSet, opc, wanted>>
  /\ OverlayStep

\* Capacitor 'appStateChange' with isActive while the overlay is active.
AppStateActive ==
  /\ Native
  /\ WindowFocus

\* A 500 ms timeout fires: createFloatingButton() if the element is absent.
TimerFires ==
  /\ timers > 0
  /\ timers' = timers - 1
  /\ IF ~buttonPresent
     THEN CreateFloatingButton
     ELSE UNCHANGED <<isSystemOverlayActive, overlayStored, persistentInterval, buttonPresent, iconVars>>
  /\ UNCHANGED <<hasPermission, docVisible, handlersSet, opc, wanted>>
  /\ ServiceStep

\* The page is loaded again: a new service instance and document; when the
\* stored flag is 'true', showFloatingButton() is called.
Reload ==
  /\ isSystemOverlayActive' = FALSE
  /\ persistentInterval' = FALSE
  /\ buttonPresent' = FALSE
  /\ docVisible' = TRUE
  /\ handlersSet' = FALSE
  /\ timers' = 0
  /\ wanted' = FALSE
  /\ hasPermission' = (overlayStored = "true" /\ platform = "android")
  /\ opc' = IF overlayStored = "true" /\ Native THEN "perm" ELSE "idle"
  /\ iconSettings' = DefaultIconSettings
  /\ lastPosition' = DefaultPosition
  /\ isDragging' = FALSE
  /\ dragStart' = Origin
  /\ dragInitial' = Origin
  /\ UNCHANGED <<overlayStored, iconStored, positionStored, buttonStyle>>
  /\ ServiceStep

\* Pointer positions of the drag: Pointer(k) for k in 0..MaxPointer
Pointer(k) == [x |-> 20 * k, y |-> 40 * k]

\* What a step of the icon handlers leaves alone.
IconStep ==
  /\ ServiceStep
  /\ UNCHANGED <<hasPermission, isSystemOverlayActive, persistentInterval, overlayStored,
                 buttonPresent, docVisible, handlersSet, timers, opc, wanted>>

\* handleStart: 'mousedown' / 'touchstart' on the element
HandleStart(p) ==
  /\ buttonPresent
  /\ isDragging' = TRUE
  /\ dragStart' = [x |-> p.x - dragInitial.x, y |-> p.y - dragInitial.y]
  /\ UNCHANGED <<iconSettings, lastPosition, iconStored, positionStored, buttonStyle, dragInitial>>
  /\ IconStep

\* handleMove: 'mousemove' / 'touchmove' on the document while dragging; the
\* pointer stays where the element remains inside the viewport.
HandleMove(p) ==
  /\ isDragging
  /\ dragInitial' = [x |-> p.x - dragStart.x, y |-> p.y - dragStart.y]
  /\ dragInitial'.x \in 0..Pointer(MaxPointer).x
  /\ dragInitial'.y \in 0..Pointer(MaxPointer).y
  /\ buttonStyle' = [buttonStyle EXCEPT !.left = dragInitial'.x, !.top = dragInitial'.y, !.right = "auto"]
  /\ UNCHANGED <<iconSettings, lastPosition, iconStored, positionStored, isDragging, dragStart>>
  /\ IconStep

\* handleEnd: 'mouseup' / 'touchend' anywhere on the document, once
\* createFloatingButton() has registered the listeners.
HandleEnd ==
  /\ handlersSet
  /\ isDragging' = FALSE
  /\ IF iconSettings.rememberPosition
       THEN /\ lastPosition' = dragInitial
            /\ positionStored' = Stringify(lastPosition', PositionKeys)
       ELSE UNCHANGED <<lastPosition, positionStored>>
  /\ UNCHANGED <<iconSettings, iconStored, buttonStyle, dragStart, dragInitial>>
  /\ IconStep

\* updateIconSettings(settings): saveSettings() and refreshButton()
UpdateIconSettings(st) ==
  /\ iconSettings' = st
  /\ iconStored' = Stringify(st, IconKeys)
  /\ buttonStyle' = IF buttonPresent THEN GetButtonStyles(st, lastPosition) ELSE buttonStyle
  /\ UNCHANGED <<lastPosition, positionStored, isDragging, dragStart, dragInitial>>
  /\ IconStep

\* The service as constructed: nothing stored, nothing shown.
OverlayFresh ==
  /\ iconSettings = DefaultIconSettings
  /\ lastPosition = DefaultPosition
  /\ iconStored = <<>>
  /\ positionStored = <<>>
  /\ buttonStyle = GetButtonStyles(DefaultIconSettings, DefaultPosition)
  /\ isDragging = FALSE
  /\ dragStart = Origin
  /\ dragInitial = Origin
  /\ isSystemOverlayActive = FALSE
  /\ persistentInterval = FALSE
  /\ overlayStored = "none"
  /\ buttonPresent = FALSE
  /\ docVisible = TRUE
  /\ handlersSet = FALSE
  /\ timers = 0
  /\ wanted = FALSE

OverlayInit ==
  /\ platform \in Platforms
  /\ hasPermission = FALSE
  /\ opc = "idle"
  /\ OverlayFresh

(* ------------------------------------------------------------------ *)
(* Offline cache (useOfflineCache)                                     *)
(* ------------------------------------------------------------------ *)

Take(s, n) == SubSeq(s, 1, Min(Len(s), n))

\* localStorage.setItem(CACHE_KEY, JSON.stringify(list)); `ok` is whether the
\* write succeeds (a failed write is caught and leaves the stored value).
Saved(list, ok) == IF ok THEN <<"list", list>> ELSE cacheStored

\* What a step of the cache hook leaves alone.
CacheStep ==
  /\ toast' = "none"
  /\ fb' = "none"
  /\ UNCHANGED <<audioVars, captureVars, voiceVars, serviceVars, panelVars, spokenText>>

\* addToCache without the slice.
AddToCacheKeepsAll(ok) ==
  /\ cacheAdds' = cacheAdds + 1
  /\ cache' = <<cacheAdds + 1>> \o cache
  /\ cacheStored' = Saved(cache', ok)
  /\ CacheStep

\* addToCache(analysis): setCache(prev => [newEntry, ...prev].slice(0, MAX_CACHE_SIZE)),
\* then the save effect of the render with the new cache.
AddToCache(ok) ==
  /\ cacheAdds' = cacheAdds + 1
  /\ cache' = Take(<<cacheAdds + 1>> \o cache, MAX_CACHE_SIZE)
  /\ cacheStored' = Saved(cache', ok)
  /\ CacheStep

CacheInit ==
  /\ cache = <<>>
  /\ cacheStored = <<"absent">>
  /\ cacheAdds = 0

(* ------------------------------------------------------------------ *)
(* Language and detail settings: the page and the persistence hook     *)
(* ------------------------------------------------------------------ *)
\* LANGUAGES of the setup flow
Languages == {"en", "hi", "te"}
\* DETAIL_LEVELS of the setup flow
DetailLevels == {"small", "medium", "full"}

\* what a step of the settings page leaves alone
IndexStep ==
  /\ toast' = "none"
  /\ fb' = "none"
  /\ UNCHANGED <<coreVars, hookVars, choiceVars, recogVars, endpointVars, providerVars, gestureVars, helpVars, serveVars, stopVars>>

\* what a step of the language hook leaves alone
HookStep ==
  /\ toast' = "none"
  /\ fb' = "none"
  /\ UNCHANGED <<coreVars, indexVars, choiceVars, recogVars, endpointVars, providerVars, gestureVars, helpVars, serveVars, stopVars>>

\* Index is mounted: the state hooks take their initial values and the load
\* effect applies the stored values when all three keys are present.  The
\* effect's updates are enqueued before any handler can run, so they are
\* rendered before the update of any handler.
IndexMount ==
  /\ ~idxMounted
  /\ idxMounted' = TRUE
  /\ IF setupStored # "none" /\ langStored # "none" /\ detailStored # "none"
       THEN /\ language' = langStored
            /\ detailLevel' = detailStored
            /\ showSetup' = FALSE
       ELSE /\ language' = "en"
            /\ detailLevel' = "medium"
            /\ showSetup' = TRUE
  /\ UNCHANGED <<langStored, detailStored, setupStored, idxChoice>>
  /\ IndexStep

\* The page is closed or reloaded: the component state is gone.
IndexUnmount ==
  /\ idxMounted
  /\ idxMounted' = FALSE
  /\ language' = "en"
  /\ detailLevel' = "medium"
  /\ showSetup' = TRUE
  /\ UNCHANGED <<langStored, detailStored, setupStored, idxChoice>>
  /\ IndexStep

\* handleSetupComplete, the onComplete of the setup flow
HandleSetupComplete(l, d) ==
  /\ idxMounted
  /\ showSetup
  /\ language' = l
  /\ detailLevel' = d
  /\ showSetup' = FALSE
  /\ langStored' = l
  /\ detailStored' = d
  /\ setupStored' = "true"
  /\ idxChoice' = l
  /\ UNCHANGED idxMounted
  /\ IndexStep

\* onLanguageDetailUpdate, the onComplete of the setup flow inside the settings menu
LanguageDetailUpdate(l, d) ==
  /\ idxMounted
  /\ ~showSetup
  /\ language' = l
  /\ detailLevel' = d
  /\ langStored' = l
  /\ detailStored' = d
  /\ idxChoice' = l
  /\ UNCHANGED <<idxMounted, showSetup, setupStored>>
  /\ IndexStep

DEFAULT_SETTINGS == [selectedLanguage |-> "en", voicePreference |-> "auto"]

SettingsKeys == <<"selectedLanguage", "voicePreference">>

\* The hook is mounted: the first render has the default state; the load
\* effect reads the stored text and enqueues the parsed settings; the save
\* effect of that render then writes the default state.
HookMount ==
  /\ hpc = "unmounted"
  /\ hpc' = "mounted"
  /\ settings' = DEFAULT_SETTINGS
  /\ pendingSettings' = IF settingsStored # <<"absent">>
                          THEN <<ParseOver(DEFAULT_SETTINGS, settingsStored)>>
                          ELSE <<>>
  /\ settingsStored' = Stringify(DEFAULT_SETTINGS, SettingsKeys)
  /\ UNCHANGED hookChoice
  /\ HookStep

\* The render of the enqueued update and its save effect.
HookRender ==
  /\ hpc = "mounted"
  /\ pendingSettings # <<>>
  /\ settings' = pendingSettings[Len(pendingSettings)]
  /\ pendingSettings' = <<>>
  /\ settingsStored' = Stringify(settings', SettingsKeys)
  /\ UNCHANGED <<hpc, hookChoice>>
  /\ HookStep

\* updateLanguage: the functional update is applied after the enqueued
\* ones, the render follows and the save effect writes the result.
UpdateLanguage(l) ==
  /\ hpc = "mounted"
  /\ LET prev == IF pendingSettings = <<>> THEN settings ELSE pendingSettings[Len(pendingSettings)]
     IN  settings' = [prev EXCEPT !.selectedLanguage = l]
  /\ pendingSettings' = <<>>
  /\ settingsStored' = Stringify(settings', SettingsKeys)
  /\ hookChoice' = l
  /\ UNCHANGED hpc
  /\ HookStep

\* updateVoiceSettings with a voice preference
UpdateVoiceSettings(v) ==
  /\ hpc = "mounted"
  /\ LET prev == IF pendingSettings = <<>> THEN settings ELSE pendingSettings[Len(pendingSettings)]
     IN  settings' = [prev EXCEPT !.voicePreference = v]
  /\ pendingSettings' = <<>>
  /\ settingsStored' = Stringify(settings', SettingsKeys)
  /\ UNCHANGED <<hpc, hookChoice>>
  /\ HookStep

ResetSettings ==
  /\ hpc = "mounted"
  /\ settings' = DEFAULT_SETTINGS
  /\ pendingSettings' = <<>>
  /\ settingsStored' = Stringify(settings', SettingsKeys)
  /\ hookChoice' = DEFAULT_SETTINGS.selectedLanguage
  /\ UNCHANGED hpc
  /\ HookStep

\* The component using the hook is unmounted or the page is closed; an
\* update that was enqueued and not rendered is dropped.
HookUnmount ==
  /\ hpc = "mounted"
  /\ hpc' = "unmounted"
  /\ settings' = DEFAULT_SETTINGS
  /\ pendingSettings' = <<>>
  /\ UNCHANGED <<settingsStored, hookChoice>>
  /\ HookStep

\* Nothing is stored and nothing is mounted yet.
PanelInit ==
  /\ idxMounted = FALSE
  /\ language = "en"
  /\ detailLevel = "medium"
  /\ showSetup = TRUE
  /\ langStored = "none"
  /\ detailStored = "none"
  /\ setupStored = "none"
  /\ idxChoice = "none"
  /\ hpc = "unmounted"
  /\ settings = DEFAULT_SETTINGS
  /\ pendingSettings = <<>>
  /\ settingsStored = <<"absent">>
  /\ hookChoice = "none"
  /\ voices = <<>>
  /\ utteranceVoice = <<>>
  /\ voiceCommands = TRUE
  /\ isListening = FALSE
  /\ recognitionRef = Null
  /\ rstate = [r \in 1..MaxRecognitions |-> "none"]
  /\ rclosure = [r \in 1..MaxRecognitions |-> FALSE]
  /\ initTimer = TRUE
  /\ sentDetailLevel = "none"
  /\ promptUsed = "none"
  /\ maxTokens = 0
  /\ isQuickMode = FALSE
  /\ isModelLoaded = FALSE
  /\ apc = "idle"
  /\ aclosure = [isQuickMode |-> FALSE, isModelLoaded |-> FALSE]
  /\ mainIsProcessing = FALSE
  /\ mainLastDescription = "none"
  /\ lastAnalysis = [source |-> "none", detailLevel |-> "none"]
  /\ calls = <<>>
  /\ raised = <<>>
  /\ dateNow = TapDelay
  /\ touchStartRef = NoTouch
  /\ lastTapRef = 0
  /\ longPressTimerRef = Null
  /\ longPressTimers = {}
  /\ tapTimers = {}
  /\ touches = 0
  /\ quickTaps = <<>>
  /\ gestures = <<>>
  /\ currentLocation = Null
  /\ isGettingLocation = FALSE
  /\ helpPc = "idle"
  /\ geoRequests = 0
  /\ helps = <<>>
  /\ openAIApiKey = TRUE
  /\ servePc = "idle"
  /\ handled = NoRequest
  /\ upstreamCalls = 0
  /\ response = NoResponse
  /\ stale = {}

(* ------------------------------------------------------------------ *)
(* Voice of the speech-synthesis fallback                              *)
(* ------------------------------------------------------------------ *)
\* A locale is the sequence of its subtags: 'en-US' is <<"en", "US">>, 'en' is <<"en">>.
\* languageVoiceMap, for the languages of the setup flow
languageVoiceMap ==
  [l \in Languages |->
     CASE l = "en" -> << <<"en", "US">>, <<"en", "GB">>, <<"en", "AU">>, <<"en">> >>
       [] l = "hi" -> << <<"hi", "IN">>, <<"hi">>, <<"en", "IN">> >>
       [] l = "te" -> << <<"te", "IN">>, <<"te">>, <<"hi", "IN">>, <<"en", "IN">> >>]

\* locales of the voices an engine may offer
Locales == { <<"en", "US">>, <<"en", "GB">>, <<"en", "AU">>, <<"en", "IN">>,
             <<"hi", "IN">>, <<"te", "IN">>, <<"fr", "FR">> }

VoiceLists == UNION { [1..n -> Locales] : n \in 0..MaxVoices }

\* voices.find(test), given the indices of the voices passing the test:
\* the first of them, <<>> for undefined
Find(vs, passing) ==
  IF passing # {} THEN vs[CHOOSE i \in passing : \A j \in passing : i <= j] ELSE <<>>

\* voices.find(v => v.lang === lang) || voices.find(v => v.lang.startsWith(lang.split('-')[0]))
FindForEntry(vs, lang) ==
  LET exact == {i \in DOMAIN vs : vs[i] = lang}
      sameLanguage == {i \in DOMAIN vs : vs[i][1] = lang[1]}
  IN  IF exact # {} THEN Find(vs, exact) ELSE Find(vs, sameLanguage)

\* The voice speakWithVoice assigns: the loop over the preferred locales
\* stops at the first entry that finds a voice; without one, voices[0].
SelectVoice(l, vs) ==
  LET prefs == languageVoiceMap[l]
      hits == {i \in DOMAIN prefs : FindForEntry(vs, prefs[i]) # <<>>}
  IN  IF hits # {}
        THEN FindForEntry(vs, prefs[CHOOSE i \in hits : \A j \in hits : i <= j])
        ELSE IF Len(vs) > 0 THEN vs[1] ELSE <<>>

\* What a step of the speech engine or of the voice selection leaves alone.
ChoiceStep ==
  /\ toast' = "none"
  /\ UNCHANGED <<coreVars, indexVars, hookVars, recogVars, endpointVars, providerVars, gestureVars, helpVars, serveVars, stopVars>>

\* The speech engine reports a list of voices.
VoicesAvailable(vs) ==
  /\ voices' = vs
  /\ fb' = "none"
  /\ UNCHANGED utteranceVoice
  /\ ChoiceStep

\* speakWithVoice with the language of the page: the voice is selected and
\* the utterance is passed to speechSynthesis.speak.
ChooseVoice ==
  /\ idxMounted
  /\ ~showSetup
  /\ utteranceVoice' = SelectVoice(language, voices)
  /\ fb' = "spoken"
  /\ UNCHANGED voices
  /\ ChoiceStep

(* ------------------------------------------------------------------ *)
(* Voice commands: speech recognition (initializeVoiceRecognition)     *)
(* ------------------------------------------------------------------ *)
\* What a step of the voice commands leaves alone.
RecogStep ==
  /\ toast' = "none"
  /\ fb' = "none"
  /\ UNCHANGED <<coreVars, indexVars, hookVars, choiceVars, endpointVars, providerVars, gestureVars, helpVars, serveVars, stopVars>>

\* recognitionRef.current.stop(), as the cleanup of the mount effect and
\* toggleVoiceCommands call it: a listening recognition will end.
Stopped(rs) ==
  IF recognitionRef # Null /\ rs[recognitionRef] = "listening"
    THEN [rs EXCEPT ![recognitionRef] = "stopping"]
    ELSE rs

\* The 3-second timeout of the mount effect: initializeVoiceRecognition().
\* With voiceCommands set, a new recognition whose handlers close over it is
\* stored in the ref and started (onstart); otherwise the new recognition is
\* stored and never started.
InitializeVoiceRecognition ==
  /\ initTimer
  /\ initTimer' = FALSE
  /\ IF voiceCommands
       THEN \E r \in 1..MaxRecognitions :
              /\ rstate[r] = "none"
              /\ rstate' = [rstate EXCEPT ![r] = "listening"]
              /\ rclosure' = [rclosure EXCEPT ![r] = TRUE]
              /\ recognitionRef' = r
              /\ isListening' = TRUE
       ELSE /\ recognitionRef' = Null
            /\ UNCHANGED <<rstate, rclosure, isListening>>
  /\ UNCHANGED voiceCommands
  /\ RecogStep

\* recognition.onerror with the error e.  'not-allowed' clears voiceCommands;
\* when that changes the state, the mount effect runs again: its cleanup
\* stops the recognition of the ref and a new 3-second timeout is set.
RecognitionError(r, e) ==
  /\ rstate[r] = "listening"
  /\ IF e = "not-allowed"
       THEN /\ voiceCommands' = FALSE
            /\ initTimer' = (initTimer \/ voiceCommands)
       ELSE UNCHANGED <<voiceCommands, initTimer>>
  /\ rstate' = [rstate EXCEPT ![r] = "failed"]
  /\ UNCHANGED <<isListening, recognitionRef, rclosure>>
  /\ RecogStep

\* recognition.onend, after an error, after stop() or when the engine ends
\* the session: with the voiceCommands its closure holds, a 1-second timeout
\* for recognition.start() is set.
RecognitionEnd(r) ==
  /\ rstate[r] \in {"listening", "failed", "stopping"}
  /\ isListening' = FALSE
  /\ rstate' = [rstate EXCEPT ![r] = IF ~rclosure[r] THEN "none"
                                     ELSE IF rstate[r] = "failed" THEN "retry"
                                     ELSE "restart"]
  /\ UNCHANGED <<voiceCommands, recognitionRef, rclosure, initTimer>>
  /\ RecogStep

\* The 1-second timeout of onend: recognition.start() (onstart follows).
RestartTimer(r) ==
  /\ rstate[r] \in {"restart", "retry"}
  /\ rstate' = [rstate EXCEPT ![r] = "listening"]
  /\ isListening' = TRUE
  /\ UNCHANGED <<voiceCommands, recognitionRef, rclosure, initTimer>>
  /\ RecogStep

\* toggleVoiceCommands.  Enabling calls initializeVoiceRecognition() of the
\* render in which voiceCommands is false: the new recognition is stored
\* and not started.  Disabling stops the recognition of the ref.  Either way
\* the mount effect runs again (cleanup, new 3-second timeout).
ToggleVoiceCommands ==
  /\ voiceCommands' = ~voiceCommands
  /\ IF voiceCommands
       THEN /\ rstate' = Stopped(rstate)
            /\ isListening' = FALSE
            /\ UNCHANGED recognitionRef
       ELSE /\ recognitionRef' = Null
            /\ UNCHANGED <<rstate, isListening>>
  /\ initTimer' = TRUE
  /\ UNCHANGED rclosure
  /\ RecogStep

(* ------------------------------------------------------------------ *)
(* Detail level: the request of analyzeImage and the endpoint          *)
(* ------------------------------------------------------------------ *)
\* keys of basePrompts in generatePrompt
BasePrompts == {"low", "medium", "high", "safety", "currency", "medication", "product",
                "color", "comparison"}

\* detailLevel of the request body analyzeImage builds
RequestDetailLevel(mode, detail) ==
  IF mode = "reading" THEN "text-extraction"
  ELSE IF mode = "navigation" THEN "navigation-focused"
  ELSE detail

\* generatePrompt: basePrompts[mode] || basePrompts[detailLevel] || basePrompts.medium
GeneratePrompt(detail, mode) ==
  IF mode \in BasePrompts THEN mode
  ELSE IF detail \in BasePrompts THEN detail
  ELSE "medium"

\* max_tokens of the completion request
MaxTokensFor(detail) == IF detail = "high" THEN 1000 ELSE IF detail = "medium" THEN 500 ELSE 200

\* analyzeImage sends its request and the endpoint serves it.  The body has
\* no mode field, so the endpoint takes 'surroundings'.
Serve ==
  /\ idxMounted
  /\ ~showSetup
  /\ sentDetailLevel' = RequestDetailLevel(currentMode, detailLevel)
  /\ promptUsed' = GeneratePrompt(sentDetailLevel', "surroundings")
  /\ maxTokens' = MaxTokensFor(sentDetailLevel')
  /\ toast' = "none"
  /\ fb' = "none"
  /\ UNCHANGED <<coreVars, indexVars, hookVars, choiceVars, recogVars, providerVars, gestureVars, helpVars, serveVars, stopVars>>

CaptureInit ==
  /\ isCapturing = FALSE
  /\ isProcessing = FALSE
  /\ isGettingContext = FALSE
  /\ lastDescription = 0
  /\ contextualInfo = 0
  /\ currentMode = "surroundings"
  /\ analysisHistory = <<>>
  /\ cpc = [c \in CSlots |-> "idle"]
  /\ cmode = [c \in CSlots |-> "surroundings"]
  /\ ctxInFlight = 0
  /\ described = 0
  /\ spokenText = <<>>

CaptureSteps ==
  \/ \E c \in CSlots : CameraGranted(c)
  \/ \E c \in CSlots : CameraDenied(c)
  \/ \E c \in CSlots : CameraNoElement(c)
  \/ \E c \in CSlots : VideoPlaying(c)
  \/ \E c \in CSlots : VideoFailed(c)
  \/ \E c \in CSlots : DelayElapsed(c)
  \/ \E c \in CSlots : DelayNoContext(c)
  \/ \E c \in CSlots : AnalyzeOk(c)
  \/ \E c \in CSlots : AnalyzeFail(c)

AudioInit ==
  /\ pc = [k \in Slots |-> "idle"]
  /\ audio = [k \in Slots |-> "none"]
  /\ currentAudioRef = Null
  /\ currentUtteranceRef = Null
  /\ isSpeaking = FALSE
  /\ synthSupported \in BOOLEAN
  /\ voicesLoaded = FALSE
  /\ onvoiceschanged = Null
  /\ synthQueue = <<>>
  /\ headStarted = FALSE
  /\ errPending = FALSE
  /\ fb = "none"

\* The component and the hooks as constructed.
(* ------------------------------------------------------------------ *)
(* Analysis providers (MainInterface.analyzeImage)                     *)
(* ------------------------------------------------------------------ *)
\* the providers, in the order analyzeImage reaches them
Providers == <<"classifier", "analyze-image", "claude-analyze">>

\* What a provider can answer: a description, a response without one, an error.
\* classifyImage resolves or throws, and generateQuickDescription always
\* returns a text.
Outcomes(p) == IF p = "classifier" THEN {"ok", "error"} ELSE {"ok", "empty", "error"}

\* the source field of a provider's response: analyze-image sends none
ResponseSource(p) == IF p = "claude-analyze" THEN "claude" ELSE "none"

\* the default taken whatever the response says
SourceAlwaysDefault(source) == "openai"

\* source || 'openai'
SourceOrDefault(source) == IF source = "none" THEN "openai" ELSE source

\* What a step of analyzeImage leaves alone.
ProviderStep ==
  UNCHANGED <<coreVars, indexVars, hookVars, choiceVars, recogVars, endpointVars, gestureVars, helpVars, serveVars, stopVars>>

\* onQuickModeToggle
ToggleQuickMode ==
  /\ isQuickMode' = ~isQuickMode
  /\ toast' = "none"
  /\ fb' = "none"
  /\ UNCHANGED <<isModelLoaded, apc, aclosure, mainIsProcessing, mainLastDescription,
                 lastAnalysis, calls, raised>>
  /\ ProviderStep

\* initializeModel of useImageClassification resolves
ModelLoaded ==
  /\ ~isModelLoaded
  /\ isModelLoaded' = TRUE
  /\ toast' = "none"
  /\ fb' = "none"
  /\ UNCHANGED <<isQuickMode, apc, aclosure, mainIsProcessing, mainLastDescription,
                 lastAnalysis, calls, raised>>
  /\ ProviderStep

\* analyzeImage up to its first await: the classifier in quick mode with a
\* loaded model, else the analyze-image function.
AnalyzeImageStart ==
  /\ apc = "idle"
  /\ mainIsProcessing' = TRUE
  /\ aclosure' = [isQuickMode |-> isQuickMode, isModelLoaded |-> isModelLoaded]
  /\ apc' = IF isQuickMode /\ isModelLoaded THEN "classify" ELSE "analyze-image"
  /\ calls' = <<>>
  /\ raised' = <<>>
  /\ toast' = "none"
  /\ fb' = "none"
  /\ UNCHANGED <<isQuickMode, isModelLoaded, mainLastDescription, lastAnalysis>>
  /\ ProviderStep

\* the end of analyzeImage after a description was stored: speakText, the
\* notification, finally
Described(p, source, title) ==
  /\ mainLastDescription' = p
  /\ lastAnalysis' = [source |-> source,
                      detailLevel |-> IF p = "classifier" \/ aclosure.isQuickMode
                                      THEN "quick" ELSE "detail"]
  /\ fb' = "spoken"
  /\ toast' = title
  /\ mainIsProcessing' = FALSE
  /\ apc' = "idle"

\* the outer catch and finally
AnalysisFailed(sofar) ==
  /\ raised' = Append(sofar, "Analysis Failed")
  /\ toast' = "Analysis Failed"
  /\ fb' = "none"
  /\ mainIsProcessing' = FALSE
  /\ apc' = "idle"
  /\ UNCHANGED <<mainLastDescription, lastAnalysis>>

\* the rest of analyzeImage once a response with data arrived
Finish(p, outcome, sofar) ==
  IF outcome = "ok"
  THEN LET title == IF aclosure.isQuickMode THEN "Quick Analysis Complete"
                    ELSE "Scene Analysis Complete"
       IN /\ Described(p, SourceOrDefault(ResponseSource(p)), title)
          /\ raised' = Append(sofar, title)
  ELSE AnalysisFailed(sofar)

\* classifyImage settles
ClassifyReturns(outcome) ==
  /\ apc = "classify"
  /\ calls' = Append(calls, [provider |-> "classifier", outcome |-> outcome])
  /\ IF outcome = "ok"
     THEN /\ Described("classifier", "huggingface", "Quick Analysis Complete")
          /\ raised' = Append(raised, "Quick Analysis Complete")
     ELSE /\ apc' = "analyze-image"
          /\ toast' = "none"
          /\ fb' = "none"
          /\ UNCHANGED <<mainIsProcessing, mainLastDescription, lastAnalysis, raised>>
  /\ UNCHANGED <<isQuickMode, isModelLoaded, aclosure>>
  /\ ProviderStep

\* the invocation of analyze-image settles
AnalyzeImageReturns(outcome) ==
  /\ apc = "analyze-image"
  /\ calls' = Append(calls, [provider |-> "analyze-image", outcome |-> outcome])
  /\ IF outcome = "error"
     THEN /\ apc' = "claude-analyze"
          /\ toast' = "none"
          /\ fb' = "none"
          /\ UNCHANGED <<mainIsProcessing, mainLastDescription, lastAnalysis, raised>>
     ELSE Finish("analyze-image", outcome, raised)
  /\ UNCHANGED <<isQuickMode, isModelLoaded, aclosure>>
  /\ ProviderStep

\* the invocation of claude-analyze settles
ClaudeReturns(outcome) ==
  /\ apc = "claude-analyze"
  /\ calls' = Append(calls, [provider |-> "claude-analyze", outcome |-> outcome])
  /\ IF outcome = "error"
     THEN AnalysisFailed(raised)
     ELSE Finish("claude-analyze", outcome, Append(raised, "Using Claude AI"))
  /\ UNCHANGED <<isQuickMode, isModelLoaded, aclosure>>
  /\ ProviderStep

(* ------------------------------------------------------------------ *)
(* Gestures (useEnhancedGestures)                                      *)
(* ------------------------------------------------------------------ *)
\* the horizontal distances a touch may have moved when it ends
Deltas == {0, 20, 60}

\* What a step of the gesture hook leaves alone.
GestureStep ==
  /\ toast' = "none"
  /\ fb' = "none"
  /\ UNCHANGED <<coreVars, indexVars, hookVars, choiceVars, recogVars, endpointVars,
                 providerVars, helpVars, serveVars, stopVars>>

\* a handler of GestureHandlers is called; n is the quick tap it is called for
Called(log, h, n) == Append(log, [handler |-> h, tap |-> n])

\* 100 ms pass
ClockTick ==
  /\ dateNow + 100 <= TapDelay + 100 * MaxTicks
  /\ dateNow' = dateNow + 100
  /\ UNCHANGED <<touchStartRef, lastTapRef, longPressTimerRef, longPressTimers, tapTimers,
                 touches, quickTaps, gestures>>
  /\ GestureStep

\* clearTimeout(longPressTimerRef.current)
ClearLongPress == {t \in longPressTimers : t.touch # longPressTimerRef}

handleTouchStart(touchCount) ==
  /\ touches < MaxTouches
  /\ touches' = touches + 1
  /\ touchStartRef' = [set |-> TRUE, time |-> dateNow, touchCount |-> touchCount]
  /\ IF touchCount = 1
     THEN /\ longPressTimers' =
               longPressTimers \cup {[touch |-> touches', due |-> dateNow + LongPressDelay]}
          /\ longPressTimerRef' = touches'
     ELSE UNCHANGED <<longPressTimers, longPressTimerRef>>
  /\ gestures' = IF touchCount = 2 THEN Called(gestures, "onTwoFingerTap", 0) ELSE gestures
  /\ UNCHANGED <<dateNow, lastTapRef, tapTimers, quickTaps>>
  /\ GestureStep

\* the timeout of handleTouchStart runs
LongPressTimeout(t) ==
  /\ t \in longPressTimers
  /\ t.due <= dateNow
  /\ longPressTimers' = longPressTimers \ {t}
  /\ gestures' = Called(gestures, "onLongPress", 0)
  /\ UNCHANGED <<dateNow, touchStartRef, lastTapRef, longPressTimerRef, tapTimers, touches,
                 quickTaps>>
  /\ GestureStep

handleTouchEnd(deltaX) ==
  LET deltaTime == dateNow - touchStartRef.time
      now == dateNow
      n == Len(quickTaps) + 1
  IN /\ longPressTimers' = ClearLongPress
     /\ longPressTimerRef' = Null
     /\ IF ~touchStartRef.set
        THEN UNCHANGED <<lastTapRef, tapTimers, quickTaps, gestures, touchStartRef>>
        ELSE /\ touchStartRef' = NoTouch
             /\ IF touchStartRef.touchCount # 1
                THEN UNCHANGED <<lastTapRef, tapTimers, quickTaps, gestures>>
                ELSE IF deltaX > SwipeThreshold
                THEN /\ gestures' = Called(gestures, "onSwipeRight", 0)
                     /\ UNCHANGED <<lastTapRef, tapTimers, quickTaps>>
                ELSE IF deltaTime < TapDelay /\ deltaX < TapSlop
                THEN /\ quickTaps' = Append(quickTaps, now)
                     /\ IF now - lastTapRef < TapDelay
                        THEN /\ gestures' = Called(gestures, "onDoubleTap", n)
                             /\ lastTapRef' = 0
                             /\ UNCHANGED tapTimers
                        ELSE /\ lastTapRef' = now
                             /\ tapTimers' = tapTimers \cup
                                  {[tap |-> n, now |-> now, due |-> now + TapDelay]}
                             /\ UNCHANGED gestures
                ELSE UNCHANGED <<lastTapRef, tapTimers, quickTaps, gestures>>
     /\ UNCHANGED <<dateNow, touches>>
     /\ GestureStep

\* the timeout of handleTouchEnd runs, at its due time or later
TapTimeout(t) ==
  /\ t \in tapTimers
  /\ t.due <= dateNow
  /\ tapTimers' = tapTimers \ {t}
  /\ gestures' = IF lastTapRef = t.now THEN Called(gestures, "onTap", t.tap) ELSE gestures
  /\ UNCHANGED <<dateNow, touchStartRef, lastTapRef, longPressTimerRef, longPressTimers,
                 touches, quickTaps>>
  /\ GestureStep

handleTouchCancel ==
  /\ touchStartRef.set
  /\ longPressTimers' = ClearLongPress
  /\ longPressTimerRef' = Null
  /\ touchStartRef' = NoTouch
  /\ UNCHANGED <<dateNow, lastTapRef, tapTimers, touches, quickTaps, gestures>>
  /\ GestureStep

(* ------------------------------------------------------------------ *)
(* Emergency panel                                                     *)
(* ------------------------------------------------------------------ *)
\* A URL is the sequence of its parts: the search text and, for the nearby
\* search, the coordinates.
NearbyUrl(c) == <<"maps/search/hospitals+police+emergency+services+near+", c>>
GeneralUrl == <<"maps/search/emergency+services+hospitals">>

\* a catch that opens no map
CatchOpensNothing == <<>>

\* what the catch of handleFindNearbyHelp opens
CatchOpens == <<GeneralUrl>>

\* the ways getCurrentPosition can fail
GeolocationErrors == {"PERMISSION_DENIED", "POSITION_UNAVAILABLE", "TIMEOUT"}

\* What a step of the emergency panel leaves alone.
HelpStep ==
  UNCHANGED <<coreVars, indexVars, hookVars, choiceVars, recogVars, endpointVars,
              providerVars, gestureVars, serveVars, stopVars>>

\* the interface's own position request resolves: setCurrentLocation
SetCurrentLocation(c) ==
  /\ currentLocation' = c
  /\ toast' = "none"
  /\ fb' = "none"
  /\ UNCHANGED <<isGettingLocation, helpPc, geoRequests, helps>>
  /\ HelpStep

\* Find Help is pressed; the button is disabled while isGettingLocation.
handleFindNearbyHelp ==
  /\ ~isGettingLocation
  /\ Len(helps) < MaxHelpRuns
  /\ fb' = "spoken"
  /\ toast' = "none"
  /\ IF currentLocation = Null
     THEN /\ isGettingLocation' = TRUE
          /\ helpPc' = "help"
          /\ geoRequests' = 1
          /\ helps' = Append(helps, [got |-> "pending", coords |-> Null, opened |-> <<>>])
     ELSE /\ helps' = Append(helps, [got |-> "known", coords |-> currentLocation,
                                     opened |-> <<NearbyUrl(currentLocation)>>])
          /\ geoRequests' = 0
          /\ UNCHANGED <<isGettingLocation, helpPc>>
  /\ UNCHANGED currentLocation
  /\ HelpStep

\* getCurrentPosition calls resolve: the nearby search, the notification, finally
HelpPosition(c) ==
  /\ helpPc = "help"
  /\ helps' = [helps EXCEPT ![Len(helps)] =
                 [got |-> "position", coords |-> c, opened |-> Append(@.opened, NearbyUrl(c))]]
  /\ fb' = "spoken"
  /\ toast' = "Emergency Services Located"
  /\ isGettingLocation' = FALSE
  /\ helpPc' = "idle"
  /\ UNCHANGED <<currentLocation, geoRequests>>
  /\ HelpStep

\* getCurrentPosition calls reject: catch, finally
HelpError(e) ==
  /\ helpPc = "help"
  /\ helps' = [helps EXCEPT ![Len(helps)] =
                 [got |-> e, coords |-> Null, opened |-> @.opened \o CatchOpens]]
  /\ fb' = "spoken"
  /\ toast' = "Location Unavailable"
  /\ isGettingLocation' = FALSE
  /\ helpPc' = "idle"
  /\ UNCHANGED <<currentLocation, geoRequests>>
  /\ HelpStep

\* Share Location is pressed; the button is disabled while isGettingLocation.
handleShareLocation ==
  /\ ~isGettingLocation
  /\ isGettingLocation' = TRUE
  /\ helpPc' = "share"
  /\ fb' = "spoken"
  /\ toast' = "none"
  /\ UNCHANGED <<currentLocation, geoRequests, helps>>
  /\ HelpStep

\* handleShareLocation ends: shared, copied to the clipboard, or failed
ShareSettles(title) ==
  /\ helpPc = "share"
  /\ isGettingLocation' = FALSE
  /\ helpPc' = "idle"
  /\ fb' = "spoken"
  /\ toast' = title
  /\ UNCHANGED <<currentLocation, geoRequests, helps>>
  /\ HelpStep

(* ------------------------------------------------------------------ *)
(* analyze-image: the request handler                                  *)
(* ------------------------------------------------------------------ *)
\* the names of corsHeaders
corsHeaders == {"Access-Control-Allow-Origin", "Access-Control-Allow-Headers"}

\* What a request can bring: a method and a body that is JSON with an image,
\* JSON without one, or no JSON at all.
Requests == [method : {"OPTIONS", "POST"}, body : {"image", "no-image", "malformed"}]

\* the statuses the completion API answers with
UpstreamStatuses == {200, 400, 401, 403, 429, 500, 503}

\* response.ok
Ok(status) == status >= 200 /\ status <= 299

\* every upstream failure reported as 500
UpstreamErrorAlways500(status) == 500

\* the status of the Response for an upstream answer that is not ok
UpstreamErrorStatus(status) == status

\* new Response(JSON.stringify(body), { status, headers: { ...corsHeaders, 'Content-Type': ... } })
JsonResponse(status, body) ==
  [status |-> status, headers |-> corsHeaders \cup {"Content-Type"}, body |-> body]

\* What a step of the endpoint leaves alone.
ServeStep ==
  /\ toast' = "none"
  /\ fb' = "none"
  /\ UNCHANGED <<coreVars, indexVars, hookVars, choiceVars, recogVars, endpointVars,
                 providerVars, gestureVars, helpVars, stopVars>>

\* the function is deployed with or without the secret
Deploy(key) ==
  /\ servePc = "idle"
  /\ openAIApiKey' = key
  /\ UNCHANGED <<servePc, handled, upstreamCalls, response>>
  /\ ServeStep

\* serve up to the fetch: preflight, the key check, req.json(), the image check
ServeRequest(req) ==
  /\ servePc = "idle"
  /\ handled' = [method |-> req.method, body |-> req.body, key |-> openAIApiKey,
                 upstream |-> NoUpstream]
  /\ IF req.method = "OPTIONS"
     THEN /\ response' = [status |-> 200, headers |-> corsHeaders, body |-> "null"]
          /\ upstreamCalls' = 0
          /\ servePc' = "idle"
     ELSE IF ~openAIApiKey
     THEN /\ response' = JsonResponse(500, "OpenAI API key not configured")
          /\ upstreamCalls' = 0
          /\ servePc' = "idle"
     ELSE IF req.body = "malformed"
     THEN /\ response' = JsonResponse(500, "Internal server error")
          /\ upstreamCalls' = 0
          /\ servePc' = "idle"
     ELSE IF req.body = "no-image"
     THEN /\ response' = JsonResponse(400, "Image data is required")
          /\ upstreamCalls' = 0
          /\ servePc' = "idle"
     ELSE /\ response' = NoResponse
          /\ upstreamCalls' = 1
          /\ servePc' = "fetching"
  /\ UNCHANGED openAIApiKey
  /\ ServeStep

\* the fetch resolves: the upstream error branch, or response.json() and the
\* description; a body without choices makes data.choices[0] throw
UpstreamAnswers(status, content) ==
  /\ servePc = "fetching"
  /\ handled' = [handled EXCEPT !.upstream =
                            [did |-> "answered", status |-> status, content |-> content]]
  /\ response' = IF ~Ok(status)
                 THEN JsonResponse(UpstreamErrorStatus(status), "Failed to analyze image")
                 ELSE IF content = "choices" THEN JsonResponse(200, "description")
                 ELSE JsonResponse(500, "Internal server error")
  /\ servePc' = "idle"
  /\ UNCHANGED <<openAIApiKey, upstreamCalls>>
  /\ ServeStep

\* the fetch rejects: the catch
UpstreamThrows ==
  /\ servePc = "fetching"
  /\ handled' = [handled EXCEPT !.upstream = [did |-> "thrown", status |-> 0, content |-> "none"]]
  /\ response' = JsonResponse(500, "Internal server error")
  /\ servePc' = "idle"
  /\ UNCHANGED <<openAIApiKey, upstreamCalls>>
  /\ ServeStep

(* ------------------------------------------------------------------ *)
(* The 'stop' voice command                                            *)
(* ------------------------------------------------------------------ *)
\* handleVoiceCommand('stop'): stopAllAudio(), speakText("Stopping audio."),
\* which runs to its first await (stopAllAudio(), setIsSpeaking(true), the
\* openai-tts request of invocation k), then stopAllAudio() again.
HandleVoiceCommandStop ==
  /\ stale = {}
  /\ \E k \in Slots :
       /\ NewCall(k)
       /\ pc' = [pc EXCEPT ![k] = "tts"]
  /\ StopAllAudio
  /\ stale' = {j \in Slots : pc'[j] \in {"tts", "play"}}
  /\ fb' = "none"
  /\ toast' = "none"
  /\ UNCHANGED <<synthSupported, voicesLoaded, onvoiceschanged>>
  /\ UNCHANGED <<captureVars, voiceVars, serviceVars, cacheVars, spokenText, indexVars, hookVars,
                 choiceVars, recogVars, endpointVars, providerVars, gestureVars, helpVars,
                 serveVars>>

InterfaceInit ==
  /\ AudioInit
  /\ toast = "none"
  /\ CaptureInit
  /\ VoiceInit
  /\ CacheInit
  /\ PanelInit

\* The interface and the service as constructed, on any platform.
AppInit == InterfaceInit /\ OverlayInit

\* The interface mounted in a browser.
Init == AppInit /\ platform = "web"

\* The interface mounted on Android: the mount effect has called
\* showFloatingButton(), which holds the permission flag and awaits the
\* notification permission.
InitNative ==
  /\ InterfaceInit
  /\ platform = "android"
  /\ hasPermission = TRUE
  /\ opc = "perm"
  /\ OverlayFresh

AudioEvents ==
  \/ \E k \in Slots : TtsError(k)
  \/ \E k \in Slots : TtsEmpty(k)
  \/ \E k \in Slots : TtsAudio(k)
  \/ \E k \in Slots : PlayResolve(k)
  \/ \E k \in Slots : PlayReject(k)
  \/ \E k \in Slots : AudioEnded(k)
  \/ \E k \in Slots : AudioError(k)
  \/ UttStart
  \/ UttEnd
  \/ UttError
  \/ UttCancelled
  \/ VoicesChanged

\* The audio arbitration with the capture flow of the capture button.
NextAudio ==
  \/ AudioEvents
  \/ PressEscape
  \/ PressHelp
  \/ (described < MaxAudioRuns /\ PressCapture)
  \/ CaptureSteps

SpecAudio == Init /\ [][NextAudio]_vars

\* The capture, analysis and context flow on Android, captures also requested by
\* the floating button, with the remote TTS request of every speakText failing.
NextCapture ==
  \/ (described < MaxCaptureRuns /\ PressCapture)
  \/ (described < MaxCaptureRuns /\ CaptureRequest)
  \/ CaptureSteps
  \/ GetContextualInfo
  \/ ContextOk
  \/ ContextFail
  \/ \E k \in Slots : TtsError(k)
  \/ \E k \in Slots : TtsEmpty(k)

SpecCapture == InitNative /\ [][NextCapture]_vars

\* The voice assistant, with the remote TTS request of every speakText failing.
NextVoice ==
  \/ (described < MaxVoiceRuns /\ StartVoiceAssistant)
  \/ VoiceSteps
  \/ \E k \in Slots : TtsError(k)
  \/ \E k \in Slots : TtsEmpty(k)

SpecVoice == Init /\ [][NextVoice]_vars

\* Analyses that succeed and the offline cache, each filled past its maximum.
NextBounds ==
  \/ (described < MaxHistoryRuns /\ PressCapture)
  \/ \E c \in CSlots : CameraGranted(c)
  \/ \E c \in CSlots : VideoPlaying(c)
  \/ \E c \in CSlots : DelayElapsed(c)
  \/ \E c \in CSlots : AnalyzeOk(c)
  \/ \E k \in Slots : TtsEmpty(k)
  \/ (cacheAdds < MaxCacheAdds /\ \E ok \in BOOLEAN : AddToCache(ok))

SpecBounds == Init /\ [][NextBounds]_vars

\* The history of analyses: captures that succeed or fail, the mode keys (each
\* pressed after the keys before it) and the clear action.
NextHistory ==
  \/ (described < MaxHistoryRuns /\ PressCapture)
  \/ CaptureSteps
  \/ \E m \in Modes : ModeKey(m) > ModeKey(currentMode) /\ SetMode(m)
  \/ ClearHistory
  \/ \E k \in Slots : TtsError(k)

SpecHistory == Init /\ [][NextHistory]_vars

\* The overlay service on every platform.
NextOverlay ==
  \/ ShowFloatingButton
  \/ PermissionResolved
  \/ PermissionRejected
  \/ HapticsResolved
  \/ HapticsRejected
  \/ HideFloatingButton
  \/ ButtonRemoved
  \/ MonitorTick
  \/ VisibilityChange
  \/ WindowFocus
  \/ AppStateActive
  \/ TimerFires
  \/ Reload

SpecOverlay == AppInit /\ [][NextOverlay]_vars

\* The floating button on Android: shown, dragged, restyled, removed,
\* recreated by the monitor and restored after a reload.
NextIcon ==
  \/ ShowFloatingButton
  \/ PermissionResolved
  \/ HapticsResolved
  \/ ButtonRemoved
  \/ MonitorTick
  \/ Reload
  \/ \E k \in 0..MaxPointer : HandleStart(Pointer(k))
  \/ \E k \in 0..MaxPointer : HandleMove(Pointer(k))
  \/ HandleEnd
  \/ \E s \in {"circle", "star"}, t \in {90, 50}, r \in BOOLEAN :
       UpdateIconSettings([style |-> s, transparency |-> t, rememberPosition |-> r])

SpecIcon == InitNative /\ [][NextIcon]_vars

\* The voice of the fallback: the language chosen on the page, the voices
\* the engine reports, and the selection.
NextVoiceChoice ==
  \/ IndexMount
  \/ \E l \in Languages, d \in DetailLevels : HandleSetupComplete(l, d)
  \/ \E vs \in VoiceLists : VoicesAvailable(vs)
  \/ ChooseVoice

SpecVoiceChoice == Init /\ [][NextVoiceChoice]_vars

\* The voice commands: the recognition sessions, their errors and the toggle.
NextRecognition ==
  \/ InitializeVoiceRecognition
  \/ \E r \in 1..MaxRecognitions, e \in {"not-allowed", "no-speech"} : RecognitionError(r, e)
  \/ \E r \in 1..MaxRecognitions : RecognitionEnd(r)
  \/ \E r \in 1..MaxRecognitions : RestartTimer(r)
  \/ ToggleVoiceCommands

SpecRecognition == Init /\ [][NextRecognition]_vars

\* The detail level from the setup flow to the endpoint.
NextDetail ==
  \/ IndexMount
  \/ \E l \in Languages, d \in DetailLevels : HandleSetupComplete(l, d)
  \/ \E l \in Languages, d \in DetailLevels : LanguageDetailUpdate(l, d)
  \/ \E m \in Modes : SetMode(m)
  \/ \E k \in Slots : TtsError(k)
  \/ Serve

SpecDetail == Init /\ [][NextDetail]_vars

\* The analysis providers of MainInterface: quick mode, the offline model and
\* the outcomes of the three providers.
NextProviders ==
  \/ ToggleQuickMode
  \/ ModelLoaded
  \/ AnalyzeImageStart
  \/ \E o \in Outcomes("classifier") : ClassifyReturns(o)
  \/ \E o \in Outcomes("analyze-image") : AnalyzeImageReturns(o)
  \/ \E o \in Outcomes("claude-analyze") : ClaudeReturns(o)

SpecProviders == Init /\ [][NextProviders]_vars

\* The gesture hook: touches, the clock and the timeouts.
NextGestures ==
  \/ ClockTick
  \/ \E c \in {1, 2} : handleTouchStart(c)
  \/ \E d \in Deltas : handleTouchEnd(d)
  \/ handleTouchCancel
  \/ \E t \in longPressTimers : LongPressTimeout(t)
  \/ \E t \in tapTimers : TapTimeout(t)

SpecGestures == Init /\ [][NextGestures]_vars

\* The emergency panel: the two location buttons and the device's answers.
NextEmergency ==
  \/ \E c \in 1..MaxCoords : SetCurrentLocation(c)
  \/ handleFindNearbyHelp
  \/ \E c \in 1..MaxCoords : HelpPosition(c)
  \/ \E e \in GeolocationErrors : HelpError(e)
  \/ handleShareLocation
  \/ \E t \in {"none", "Location Copied", "Location Sharing Failed"} : ShareSettles(t)

SpecEmergency == Init /\ [][NextEmergency]_vars

\* The request handler of analyze-image: deployments, requests and the upstream.
NextServe ==
  \/ \E k \in BOOLEAN : Deploy(k)
  \/ \E r \in Requests : ServeRequest(r)
  \/ \E s \in UpstreamStatuses, c \in {"choices", "other"} : UpstreamAnswers(s, c)
  \/ UpstreamThrows

SpecServe == Init /\ [][NextServe]_vars

\* Speech requests, the events of the audio paths and one 'stop' voice command,
\* after which no further speech is requested.
NextStop ==
  \/ AudioEvents
  \/ (stale = {} /\ PressHelp)
  \/ HandleVoiceCommandStop

SpecStop == Init /\ [][NextStop]_vars

\* The settings page and the language hook: mounts, unmounts and choices.
NextLanguage ==
  \/ IndexMount
  \/ IndexUnmount
  \/ \E l \in Languages, d \in DetailLevels : HandleSetupComplete(l, d)
  \/ \E l \in Languages, d \in DetailLevels : LanguageDetailUpdate(l, d)
  \/ HookMount
  \/ HookRender
  \/ HookUnmount
  \/ \E l \in Languages : UpdateLanguage(l)
  \/ \E v \in {"auto", "female"} : UpdateVoiceSettings(v)
  \/ ResetSettings

SpecLanguage == Init /\ [][NextLanguage]_vars

(* ------------------------------------------------------------------ *)
(* Audio arbitration: properties                                       *)
(* ------------------------------------------------------------------ *)

Playing == {k \in Slots : audio[k] = "playing"}

\* C1: at most one audio/speech output is active at any time: the Audio elements
\* that are playing and the utterance being spoken are together at most one.
C1_AtMostOneOutput ==
  Cardinality(Playing) + (IF headStarted THEN 1 ELSE 0) <= 1

\* A speakText invocation issues its openai-tts request in this step.
RequestIssued == \E k \in Slots : pc[k] # "tts" /\ pc'[k] = "tts"

\* C2: every speech request stops existing output first: once a speakText call
\* has issued its request, no Audio element is playing and no utterance is
\* being spoken.
C2_RequestHaltsOutput ==
  [][RequestIssued => (\A j \in Slots : audio'[j] # "playing") /\ ~headStarted']_vars

\* C4: a failed remote TTS call results in a speech-synthesis attempt: whenever
\* the fallback routine has run with speech synthesis supported, the utterance
\* was passed to speechSynthesis.speak.
C4_FallbackSpeaks ==
  (synthSupported /\ fb \notin {"none", "error"}) => fb \in {"spoken", "threw"}

BothPathsFailed == fb \in {"unsupported", "threw", "error"}

\* C5: when the remote TTS path and the local speech path both fail, a
\* destructive toast is raised, isSpeaking is false, and a speakText call is
\* accepted as before (whenever an invocation can be hosted).
C5_BothFailNotifies ==
  BothPathsFailed =>
    /\ toast \in Destructive
    /\ ~isSpeaking
    /\ ((\E k \in Slots : SlotFree(k)) => ENABLED PressHelp)

C5_Witness ==
  /\ fb = "unsupported"
  /\ toast = "Speech Not Available"
  /\ ~isSpeaking

\* C6: lastDescription changes only in the step in which an analysis succeeds,
\* where it becomes that response's description; no speech step changes it.
C6_DescriptionKept ==
  [][lastDescription' # lastDescription =>
       \E c \in CSlots : /\ cpc[c] = "analyze"
                         /\ cpc'[c] = "idle"
                         /\ toast' = CompleteTitle(cmode[c])
                         /\ lastDescription' = described']_vars

C6_Witness ==
  /\ lastDescription # 0
  /\ fb = "error"
  /\ toast = "Speech Temporarily Unavailable"

(* ------------------------------------------------------------------ *)
(* Capture flow: properties                                            *)
(* ------------------------------------------------------------------ *)

CaptureFailure ==
  \E c \in CSlots : CameraDenied(c) \/ VideoFailed(c) \/ AnalyzeFail(c)

CaptureCompletes == \E c \in CSlots : cpc[c] # "idle" /\ cpc'[c] = "idle"

AnalysisCompletes == \E c \in CSlots : cpc[c] = "analyze" /\ cpc'[c] = "idle"

ContextCompletes == ctxInFlight' < ctxInFlight

NothingInFlight == (\A c \in CSlots : cpc[c] = "idle") /\ ctxInFlight = 0

\* C7: every failure of captureImage, analyzeImage and getContextualInfo raises
\* a destructive toast and leaves lastDescription and the history as they were;
\* each call clears its loading flag when it completes, in every outcome; and
\* with no call in flight all three flags are false.
C7_FailureSurfacedAndReverted ==
  /\ [][(CaptureFailure \/ ContextFail) =>
          /\ toast' \in Destructive
          /\ lastDescription' = lastDescription
          /\ analysisHistory' = analysisHistory]_vars
  /\ [][/\ CaptureCompletes => ~isCapturing'
        /\ AnalysisCompletes => ~isProcessing'
        /\ ContextCompletes => ~isGettingContext']_vars
  /\ [](NothingInFlight => ~isCapturing /\ ~isProcessing /\ ~isGettingContext)

C7_Witness ==
  /\ toast = "Analysis Failed"
  /\ lastDescription # 0
  /\ analysisHistory # <<>>
  /\ NothingInFlight
  /\ ~isCapturing /\ ~isProcessing /\ ~isGettingContext

(* ------------------------------------------------------------------ *)
(* Voice assistant: properties                                         *)
(* ------------------------------------------------------------------ *)

VoiceFailure ==
  \/ VoiceCameraDenied
  \/ VoiceCameraNoElement
  \/ VoiceVideoFailed
  \/ VoiceDelayNoContext
  \/ RecordingFailed
  \/ TranscribeFails
  \/ VoiceAnalyzeFail

VoiceAtRest == vpc = "idle" /\ spc = "idle" /\ ~isRecording

\* C8: every failure of startVoiceAssistant and stopVoiceAssistant raises a
\* notification, and once the flow is at rest (no call in flight, no recording)
\* isCapturing, isTranscribing and isVoiceMode are false.
C8_VoiceFlowReverts ==
  /\ [][VoiceFailure => toast' \in Destructive]_vars
  /\ [](VoiceAtRest => ~isCapturing /\ ~isTranscribing /\ ~isVoiceMode)

(* ------------------------------------------------------------------ *)
(* Floating overlay: properties                                        *)
(* ------------------------------------------------------------------ *)

\* A recreation is on its way: the monitor is armed and will act, or a
\* restoration timeout is pending.
RecreationDue == (persistentInterval /\ isSystemOverlayActive) \/ timers > 0

\* C3: from a successful showFloatingButton until a client calls
\* hideFloatingButton, whenever the element is absent while the document is
\* visible its recreation is due (by the monitor or by a pending timeout).
C3_OverlayRecreated == (wanted /\ ~buttonPresent /\ docVisible) => RecreationDue

(* ------------------------------------------------------------------ *)
(* History and cache: properties                                       *)
(* ------------------------------------------------------------------ *)

StoredList == IF cacheStored[1] = "list" THEN cacheStored[2] ELSE <<>>

\* C9: the in-memory history never holds more than 10 entries, and the offline
\* cache and its stored copy never hold more than 20.
C9_HistoryAndCacheBounded ==
  /\ Len(analysisHistory) <= 10
  /\ Len(cache) <= 20
  /\ Len(StoredList) <= 20

C9_Witness ==
  /\ described = 11
  /\ Len(analysisHistory) = 10
  /\ cacheAdds = 21
  /\ Len(cache) = 20
  /\ Len(StoredList) = 20

Succeeded(c) == cpc[c] = "analyze" /\ cpc'[c] = "idle" /\ described' = described + 1

\* C10: a successful analysis puts one entry in front, with the response's
\* description and the mode of its request, followed by the first nine earlier
\* entries in their order; any other change of the history is the clear action
\* emptying it.
C10_EntryPerSuccess ==
  [][/\ \A c \in CSlots : Succeeded(c) =>
          /\ Len(analysisHistory') = (IF Len(analysisHistory) < 10
                                      THEN Len(analysisHistory) + 1 ELSE 10)
          /\ analysisHistory'[1] = [type |-> cmode[c], description |-> lastDescription']
          /\ \A i \in 2..Len(analysisHistory') : analysisHistory'[i] = analysisHistory[i - 1]
     /\ (described' = described /\ analysisHistory' # analysisHistory) =>
          /\ analysisHistory' = <<>>
          /\ toast' = "History Cleared"]_vars

C10_Witness ==
  /\ described = 11
  /\ Len(analysisHistory) = 10
  /\ analysisHistory[1].description = 11
  /\ analysisHistory[10].description = 2
  /\ analysisHistory[1].type # currentMode
  /\ analysisHistory[1].type # analysisHistory[10].type

\* C11: every language chosen on the settings page or through the hook is
\* the stored one, and once a mount has settled it is the loaded one.
HookSettled == hpc = "mounted" /\ pendingSettings = <<>>

C11_LanguageRoundTrip ==
  /\ idxChoice # "none" =>
       /\ langStored = idxChoice
       /\ idxMounted => language = idxChoice
  /\ (hookChoice # "none" /\ HookSettled) =>
       /\ ParseOver(DEFAULT_SETTINGS, settingsStored).selectedLanguage = hookChoice
       /\ settings.selectedLanguage = hookChoice

\* C17: from a successful showFloatingButton until a client calls
\* hideFloatingButton, the overlay is flagged active and the stored flag is
\* 'true', through every automatic recreation; so whenever the element is in
\* the document the stored flag is 'true'.
C17_ActiveFlagKept ==
  /\ wanted => (isSystemOverlayActive /\ overlayStored = "true")
  /\ buttonPresent => overlayStored = "true"

\* C16: every detail level the client sends is one of the endpoint's levels
\* (low, medium, high), the prompt used is the one of that level, and the
\* response budget does not decrease from the lowest to the highest level of
\* the setup flow.
SelectableOrder == <<"small", "medium", "full">>

C16_DetailLevelValid ==
  sentDetailLevel # "none" =>
    /\ sentDetailLevel \in {"low", "medium", "high"}
    /\ promptUsed = sentDetailLevel
    /\ \A i, j \in DOMAIN SelectableOrder :
         (i <= j /\ sentDetailLevel = SelectableOrder[j]) =>
           MaxTokensFor(SelectableOrder[i]) <= maxTokens

\* C15: a recognition that ended after an error (such as 'not-allowed') is
\* not started again by the system: no step takes a recognition whose
\* session failed back to listening.
C15_NoAutomaticRetry ==
  [][\A r \in 1..MaxRecognitions : rstate[r] = "retry" => rstate'[r] # "listening"]_vars

\* C14: when a capture's analysis response carries a description, the
\* description stored for display is exactly that description, and the text
\* handed to speakText is the prefix of the capture's mode followed by that
\* description and nothing else.
ExpectedSpoken(m, d) ==
  IF m = "reading" THEN <<"Text found: ", d>>
  ELSE IF m = "navigation" THEN <<"Navigation guidance: ", d>>
  ELSE <<d>>

Listed(l, vs) == {i \in DOMAIN languageVoiceMap[l] : \E k \in DOMAIN vs : vs[k] = languageVoiceMap[l][i]}

SameLanguageVoices(l, vs) ==
  {k \in DOMAIN vs : \E i \in DOMAIN languageVoiceMap[l] : languageVoiceMap[l][i][1] = vs[k][1]}

PreferredVoice(l, vs, v) ==
  IF Listed(l, vs) # {}
    THEN v = languageVoiceMap[l][CHOOSE i \in Listed(l, vs) : \A j \in Listed(l, vs) : i <= j]
    ELSE IF SameLanguageVoices(l, vs) # {}
      THEN \E k \in SameLanguageVoices(l, vs) : v = vs[k]
      ELSE IF Len(vs) > 0 THEN v = vs[1] ELSE v = <<>>

C13_VoiceByPreference ==
  [][ChooseVoice => (PreferredVoice(language, voices, utteranceVoice') /\ fb' = "spoken")]_vars

\* C12: with rememberPosition enabled, the end of a drag stores the position
\* the button is displayed at, updateIconSettings stores the settings, and a
\* button created afterwards is placed at the stored position with the stored
\* shape and opacity; with rememberPosition disabled it is placed at the
\* default position.
StoredIcon == ParseOver(DefaultIconSettings, iconStored)
StoredPosition == ParseOver(Origin, positionStored)

PlacedAsStored ==
  /\ IF iconSettings.rememberPosition
       THEN positionStored # <<>> =>
              /\ buttonStyle.left = StoredPosition.x
              /\ buttonStyle.top = StoredPosition.y
       ELSE /\ buttonStyle.top = DefaultPosition.y
            /\ buttonStyle.right = "20px"
  /\ iconStored # <<>> =>
       /\ buttonStyle.borderRadius = GetButtonStyles(StoredIcon, Origin).borderRadius
       /\ buttonStyle.clipPath = GetButtonStyles(StoredIcon, Origin).clipPath
       /\ buttonStyle.opacity = GetButtonStyles(StoredIcon, Origin).opacity

C12_PositionAndStyleReapplied ==
  [][ /\ (HandleEnd /\ buttonPresent /\ iconSettings.rememberPosition) =>
           /\ StoredPosition' = [x |-> buttonStyle'.left, y |-> buttonStyle'.top]
           /\ iconStored # <<>> => StoredIcon' = iconSettings'
      /\ (MonitorTick \/ HapticsResolved) => PlacedAsStored' ]_vars

\* the tag each provider's descriptions are recorded under
ProviderTag(p) ==
  CASE p = "classifier" -> "huggingface"
    [] p = "analyze-image" -> "openai"
    [] p = "claude-analyze" -> "claude"
    [] OTHER -> "none"

\* C18: the providers are tried in a fixed order and analyzeImage stops at the
\* first success: the classifier is called only in quick mode with a loaded
\* model and only first; analyze-image is called first when the classifier is
\* skipped and second when it failed, and has been called whenever analyzeImage
\* ends without a classifier description; claude-analyze is called only after a
\* failed analyze-image; no call follows a successful one; 'Analysis Failed' is
\* raised only when no provider called gave a description; and the recorded
\* source is the tag of the provider whose description is displayed.
C18_ProviderOrder ==
  /\ \A i \in 1..Len(calls) :
       /\ i < Len(calls) => calls[i].outcome # "ok"
       /\ calls[i].provider = "classifier" =>
            i = 1 /\ aclosure.isQuickMode /\ aclosure.isModelLoaded
       /\ calls[i].provider = "analyze-image" =>
            \/ i = 1 /\ ~(aclosure.isQuickMode /\ aclosure.isModelLoaded)
            \/ i = 2 /\ calls[1] = [provider |-> "classifier", outcome |-> "error"]
       /\ calls[i].provider = "claude-analyze" =>
            i > 1 /\ calls[i - 1].provider = "analyze-image" /\ calls[i - 1].outcome = "error"
  /\ (apc = "idle" /\ calls # <<>> /\ calls[1] # [provider |-> "classifier", outcome |-> "ok"])
       => \E i \in 1..Len(calls) : calls[i].provider = "analyze-image"
  /\ (\E j \in 1..Len(raised) : raised[j] = "Analysis Failed")
       => \A i \in 1..Len(calls) : calls[i].outcome # "ok"
  /\ apc = "idle" => ~mainIsProcessing
  /\ lastAnalysis.source = ProviderTag(mainLastDescription)

\* the classifier and analyze-image failed and claude-analyze gave the description
C18_Witness ==
  /\ apc = "idle"
  /\ calls = << [provider |-> "classifier", outcome |-> "error"],
                [provider |-> "analyze-image", outcome |-> "error"],
                [provider |-> "claude-analyze", outcome |-> "ok"] >>
  /\ raised = <<"Using Claude AI", "Quick Analysis Complete">>
  /\ mainLastDescription = "claude-analyze"
  /\ lastAnalysis.source = "claude"

\* how often handler h was called for quick tap n
TimesCalled(h, n) ==
  Cardinality({i \in 1..Len(gestures) : gestures[i] = [handler |-> h, tap |-> n]})

\* The quick taps that open a double tap, pairing the taps in order: a tap and
\* the next one form a pair when their touch-ends are less than TapDelay apart.
RECURSIVE PairStarts(_, _)
PairStarts(ts, i) ==
  IF i >= Len(ts) THEN {}
  ELSE IF ts[i + 1] - ts[i] < TapDelay THEN {i} \cup PairStarts(ts, i + 2)
  ELSE PairStarts(ts, i + 1)

\* C19: a pair of quick taps whose touch-ends are less than 300 ms apart calls
\* onDoubleTap exactly once and onTap for neither tap; any other quick tap never
\* calls onDoubleTap, calls onTap at most once, and has called it exactly once
\* when its timeout has run, whatever touch-ends were handled before the timeout.
C19_TapOrDoubleTap ==
  LET starts == PairStarts(quickTaps, 1)
  IN \A n \in 1..Len(quickTaps) :
       IF n \in starts
       THEN TimesCalled("onTap", n) = 0 /\ TimesCalled("onDoubleTap", n) = 0
       ELSE IF n - 1 \in starts
       THEN TimesCalled("onTap", n) = 0 /\ TimesCalled("onDoubleTap", n) = 1
       ELSE /\ TimesCalled("onDoubleTap", n) = 0
            /\ TimesCalled("onTap", n) <= 1
            /\ (n < Len(quickTaps) \/ quickTaps[n] + TapDelay <= dateNow)
                 => (TimesCalled("onTap", n) = 1 \/ \E t \in tapTimers : t.tap = n)

\* C20: every handleFindNearbyHelp call that has completed opened exactly one
\* maps URL: the nearby search with the known coordinates when the location was
\* known, with the obtained coordinates when the device gave a position, and the
\* general search when the device failed or timed out; a call asks the device at
\* most once, and not at all when the location was known; and isGettingLocation
\* is false when no handler is waiting for the device.
C20_OneMapAndIdle ==
  /\ \A i \in 1..Len(helps) :
       CASE helps[i].got = "pending" -> i = Len(helps) /\ helpPc = "help" /\ helps[i].opened = <<>>
         [] helps[i].got \in {"known", "position"} ->
              helps[i].opened = <<NearbyUrl(helps[i].coords)>> /\ helps[i].coords # Null
         [] OTHER -> helps[i].opened = <<GeneralUrl>>
  /\ geoRequests <= 1
  /\ (helps # <<>> /\ helps[Len(helps)].got = "known") => geoRequests = 0
  /\ helpPc = "idle" => ~isGettingLocation

\* three calls have completed: with a known location, with a position from the
\* device, and after a timeout
C20_Witness ==
  /\ helpPc = "idle"
  /\ ~isGettingLocation
  /\ Len(helps) = 3
  /\ helps[1].got = "TIMEOUT"
  /\ helps[2].got = "position"
  /\ helps[3].got = "known"

\* C21: of the request handled last, once its Response is returned: the
\* Response carries the CORS headers; a preflight gets status 200 with an empty
\* body; a missing key gives 500 and a missing image 400, both without a fetch;
\* an upstream answer that is not ok gives the upstream's status; a thrown error
\* (a body that is no JSON, a rejected fetch, an answer without choices) gives
\* 500; and no request causes more than one fetch.
C21_RejectsBeforeUpstream ==
  (servePc = "idle" /\ handled # NoRequest) =>
    /\ corsHeaders \subseteq response.headers
    /\ upstreamCalls <= 1
    /\ handled.method = "OPTIONS" =>
         response.status = 200 /\ response.body = "null" /\ upstreamCalls = 0
    /\ (handled.method = "POST" /\ ~handled.key) =>
         response.status = 500 /\ upstreamCalls = 0
    /\ (handled.method = "POST" /\ handled.key /\ handled.body = "no-image") =>
         response.status = 400 /\ upstreamCalls = 0
    /\ (handled.method = "POST" /\ handled.key /\ handled.body = "malformed") =>
         response.status = 500 /\ upstreamCalls = 0
    /\ (handled.upstream.did = "answered" /\ ~Ok(handled.upstream.status)) =>
         response.status = handled.upstream.status
    /\ (handled.upstream.did = "thrown"
        \/ (handled.upstream.did = "answered" /\ Ok(handled.upstream.status)
            /\ handled.upstream.content # "choices")) =>
         response.status = 500
    /\ upstreamCalls = 0 => handled.upstream = NoUpstream

\* the upstream answered 429 and the Response passes it on with the CORS headers
C21_Witness ==
  /\ servePc = "idle"
  /\ handled.method = "POST"
  /\ handled.upstream.did = "answered"
  /\ handled.upstream.status = 429
  /\ response.status = 429
  /\ corsHeaders \subseteq response.headers
  /\ upstreamCalls = 1

\* C22: once hideFloatingButton() has been called and showFloatingButton() has
\* not been called since, no step brings the element back: not a 500 ms timeout
\* that was set while the overlay was active, and not a tick of the monitor.
C22_NoReappearAfterHide ==
  [][(~wanted /\ opc = "idle" /\ ~buttonPresent) => ~buttonPresent']_vars

\* C23: after the stop command has run stopAllAudio, no Audio element of a
\* speakText invocation whose request was issued before the stop is playing,
\* also when the request's response arrives after the stop.
C23_StopCoversPending ==
  \A k \in stale : audio[k] # "playing"

\* C24: whenever a captureImage call (with the analyzeImage call it awaits) has
\* started and not finished, isCapturing or isProcessing is true, also when
\* captures overlap.
C24_LoadingCoversCaptures ==
  (\E c \in CSlots : cpc[c] # "idle") => (isCapturing \/ isProcessing)

\* C25: while voice commands are disabled, no recognition session is started
\* or restarted: no step taken with voiceCommands false takes a recognition
\* to listening, in particular not the timeout of an onend handler.
C25_DisabledStaysSilent ==
  [][~voiceCommands =>
       \A r \in 1..MaxRecognitions : rstate'[r] = "listening" => rstate[r] = "listening"]_vars

\* C26: a mouseup or touchend that no drag start on the current button
\* preceded leaves lastPosition and the stored position as they were.
C26_PositionOnlyByDrag ==
  [][(HandleEnd /\ ~isDragging) =>
       (lastPosition' = lastPosition /\ positionStored' = positionStored)]_vars

====
